---- MODULE Spec2Model ----
(***************************************************************************)
(* Verification model of the handbook's utility functions and event-loop   *)
(* examples.  The topics of the handbook do not interact, so every topic   *)
(* has its own variables, its own Init/Next and its own specification;     *)
(* a specification leaves the variables of the other topics at their idle  *)
(* values.                                                                 *)
(*                                                                         *)
(*   SpecCurry     curry(fn)            (currying_partial_application)     *)
(*   SpecDebounce  debounce(func, delay)   (debouncing_throttling)         *)
(*   SpecThrottle  throttle(func, limit)   (debouncing_throttling)         *)
(*   SpecLoop      the event loop and its example programs (event_loop)    *)
(*   SpecDebounceCancel, SpecDebounceImmediate, SpecThrottleTrailing       *)
(*                 the other timer wrappers (debouncing_throttling)        *)
(*   SpecRetry     fetchWithRetry(url, maxAttempts)   (async_await)        *)
(*   SpecOnce, SpecMemoize   once(fn), memoize(fn)    (closures)           *)
(*   SpecProfile   the UserProfileSafe component      (useEffect)          *)
(*   SpecCount     the FunctionalUpdates component    (useState)           *)
(*   SpecUseDebounce   the hook useDebounce           (useCallback)        *)
(*   SpecCurryAdd, SpecSum, SpecAdvancedCurry                              *)
(*                 curry(add), sum(1)(2)...(), advancedCurry (currying)    *)
(*   SpecDebouncePair  debounce next to debounceImmediate                  *)
(*   SpecBank      createBankAccount                  (closures)           *)
(*   SpecShop      class ShoppingCart                 (this keyword)       *)
(*   SpecCart      the CartProvider component         (useContext)         *)
(*   SpecStopwatch the Stopwatch component            (useRef)             *)
(*   SpecBatch, SpecBatchFair   processLargeDataset   (event_loop)         *)
(***************************************************************************)
EXTENDS Integers, Sequences, FiniteSets, TLC

VARIABLES
    \* ---- curry(fn): one chain of calls curry(fn)(g1)(g2)...
    fnLength,     \* fn.length, the declared arity of fn
    pending,      \* the arguments a1..an not yet passed, in order
    supplied,     \* the arguments passed so far, in order (history)
    held,         \* `args` captured by the closure the last call returned
    returned,     \* what the last call returned: "none", "function" or "value"
    retVal,       \* the value the last call returned, when returned = "value"
    fnCalls,      \* the argument lists fn has been invoked with (history)
    groups,       \* the number of arguments of each call made so far (history)
    \* ---- the clock and the timers of setTimeout, shared by the wrappers
    now,          \* the current time, in ms
    timers,       \* the pending timers: [id, due, args]
    nextId,       \* the id the next setTimeout returns
    wait,         \* the wrapper's delay / limit parameter
    calls,        \* the calls of the wrapped function: [t, args, cooldown] (history)
    execs,        \* the executions of func: [t, args, sinceCall] (history)
    \* ---- debounce(func, delay)
    timeoutId,    \* the closure's timeoutId; 0 is undefined
    \* ---- throttle(func, limit)
    inThrottle,   \* the closure's inThrottle flag (undefined is FALSE)
    \* ---- the event loop, running one example program
    prog,         \* the name of the example that runs
    stack,        \* the call stack: the statements left in each frame, top first
    microQ,       \* the microtask queue: the statements of each queued job
    macroQ,       \* the macrotask queue: the statements of each queued callback
    out,          \* what console.log has printed, in order
    \* ---- debounceWithCancel, debounceImmediate, throttleTrailing
    cancels,      \* the calls of cancel(): [t, after] (history)
    immediate,    \* debounceImmediate's immediate parameter
    lastArgs,     \* throttleTrailing's lastArgs; 0 is undefined / null
    \* ---- fetchWithRetry(url, maxAttempts)
    maxAttempts,  \* the maxAttempts parameter
    attempt,      \* the loop variable
    retryPc,      \* where the function is: "loop", "delay", "returned", "thrown"
    lastError,    \* the variable lastError; <<>> is undefined
    outcome,      \* what the function returned or threw: [kind, val]
    attemptLog,   \* the result of each attempt made (history)
    waits,        \* the ms of each delay(...) awaited (history)
    \* ---- once(fn)
    hasRun,       \* the closure's hasRun
    onceResult,   \* the closure's result; <<>> is undefined
    onceCalls,    \* the calls of the returned function: [args, kind, ret] (history)
    onceRuns,     \* the invocations of fn: [args, threw] (history)
    \* ---- memoize(fn)
    cache,        \* the closure's cache object: a set of [key, val]
    memoCalls,    \* the calls of the returned function: [arg, ret, computed] (history)
    memoRuns,     \* the arguments fn was invoked with (history)
    \* ---- UserProfileSafe
    userId,       \* the state userId
    user,         \* the state user; <<>> is null
    loading,      \* the state loading
    requests,     \* one per run of the effect: [uid, cancelled, status, at]
    applied,      \* the setUser and setLoading(false) calls: [call, req, latest] (history)
    \* ---- FunctionalUpdates
    count,        \* the state count
    renderedCount,\* the count the handlers of the last render closed over
    updateQueue,  \* the setCount calls not yet processed by a render
    clicks,       \* the clicks handled: [handler, before, after] (history)
    \* ---- infiniteSum(a) and the README's sum(a): one chain f(a1)(a2)...(an)()
    sumImpl,      \* which of the two functions the chain uses
    sumAcc,       \* `a` of the closure the last call returned
    sumPending,   \* the numbers not yet passed, in order
    sumSupplied,  \* the numbers passed so far, in order (history)
    sumState,     \* what the last call returned: "function", "value", or "TypeError"
    \* ---- advancedCurry(fn): one chain of calls
    acArgs,       \* `args` captured by the closure the last call returned
    acState,      \* what the last call returned: "start", "function" or "value"
    acInvoked,    \* the argument lists fn has been invoked with (history)
    acChain,      \* the argument lists of the calls made so far (history)
    \* ---- debounceImmediate(func, delay, false) next to debounce(func, delay)
    timersB,      \* the pending timers of the debounceImmediate wrapper
    timeoutIdB,   \* its timeoutId; 0 is undefined and null
    execsB,       \* the executions of func it made: [t, args] (history)
    \* ---- createBankAccount(initialBalance)
    balance,      \* the closure's balance, a JavaScript number
    bankLog,      \* the last call made: [op, amount, before, ok] (history)
    \* ---- class ShoppingCart
    items,        \* this.items: [item, price] entries
    total,        \* this.total
    shopLog,      \* the last call made: [op, item, price, before, beforeTotal] (history)
    \* ---- CartProvider
    ctxItems,     \* the state items: [id, price, quantity] entries
    ctxTotal,     \* total, computed by the last render
    ctxQueue,     \* the setItems updaters not yet processed by a render
    \* ---- Stopwatch
    time,         \* the state time
    isRunning,    \* isRunning as the handlers of the last render read it
    queuedRunning,\* the value of the last setIsRunning call, rendered next
    intervalRef,  \* intervalRef.current; 0 is null
    intervals,    \* the ids of the live setInterval timers
    nextInterval, \* the id the next setInterval returns
    swLog,        \* the last handler invoked (history)
    \* ---- processLargeDataset(data)
    data,         \* the array
    original,     \* the array as it was passed (history)
    currentIndex, \* the closure's currentIndex
    batchPc,      \* "call", then "scheduled" while a processBatch run is due, then "done"
    batchLog,     \* the batches processed: [from, to] (history)
    processed,    \* how many times each element has been doubled (history)
    otherTasks    \* how many other tasks have run between batches (history)

curryVars == <<fnLength, pending, supplied, held, returned, retVal, fnCalls, groups>>
clockVars == <<now, timers, nextId, wait, calls, execs>>
debounceVars == <<timeoutId>>
throttleVars == <<inThrottle>>
loopVars == <<prog, stack, microQ, macroQ, out>>
wrapVars == <<cancels, immediate, lastArgs>>
retryVars == <<maxAttempts, attempt, retryPc, lastError, outcome, attemptLog, waits>>
onceVars == <<hasRun, onceResult, onceCalls, onceRuns>>
memoVars == <<cache, memoCalls, memoRuns>>
profileVars == <<userId, user, loading, requests, applied>>
countVars == <<count, renderedCount, updateQueue, clicks>>
sumVars == <<sumImpl, sumAcc, sumPending, sumSupplied, sumState>>
acVars == <<acArgs, acState, acInvoked, acChain>>
pairVars == <<timersB, timeoutIdB, execsB>>
bankVars == <<balance, bankLog>>
shopVars == <<items, total, shopLog>>
ctxVars == <<ctxItems, ctxTotal, ctxQueue>>
stopwatchVars == <<time, isRunning, queuedRunning, intervalRef, intervals, nextInterval, swLog>>
batchVars == <<data, original, currentIndex, batchPc, batchLog, processed, otherTasks>>

\* the topics of the first four specifications, and the later ones
baseVars == <<curryVars, clockVars, debounceVars, throttleVars, loopVars>>
moreVars == <<sumVars, acVars, pairVars, bankVars, shopVars, ctxVars, stopwatchVars, batchVars>>
extVars == <<wrapVars, retryVars, onceVars, memoVars, profileVars, countVars, moreVars>>

vars == <<baseVars, extVars>>

----------------------------------------------------------------------------
(* Bounds *)

\* arities 1..MaxArity are explored
MaxArity == 6
\* argument values are drawn from 0..MaxArg
MaxArg == 1
\* the clock runs from 0 to MaxTime
MaxTime == 6
\* the wrapper's delay / limit is drawn from 1..MaxWait
MaxWait == 3
\* at most MaxCalls calls of a wrapped function are made
MaxCalls == 4
\* at most MaxCancels calls of cancel() are made
MaxCancels == 1
\* fetchWithRetry is called with maxAttempts in 0..MaxRetries
MaxRetries == 4
\* the user ids are 1..MaxUser
MaxUser == 3
\* the effect of UserProfileSafe runs at most MaxRequests times
MaxRequests == 3
\* at most MaxClicks buttons of FunctionalUpdates are clicked
MaxClicks == 4
\* sum(a1)(a2)...(an)() is given at most MaxNumbers numbers
MaxNumbers == 4
\* a chain of calls of advancedCurry(fn) has at most MaxChain calls
MaxChain == 3
\* the finite amounts are -1..MaxAmount, the finite balances 0..MaxBalance
MaxAmount == 3
MaxBalance == 6
\* a ShoppingCart holds at most MaxItems entries, of the items 1..MaxNames,
\* with the prices -1..MaxPrice
MaxItems == 3
MaxNames == 2
MaxPrice == 1
\* CartProvider: quantities up to MaxQuantity, at most MaxBatch updates of
\* items between two renders
MaxQuantity == 2
MaxBatch == 2
\* Stopwatch: at most MaxIntervals calls of setInterval, time up to MaxTicks
MaxIntervals == 3
MaxTicks == 3
\* processLargeDataset: arrays of at most MaxLen numbers, processed in batches
\* of batchSize (1000 in the source, scaled down with the arrays), with at
\* most MaxOther other tasks run in between
MaxLen == 5
batchSize == 2
MaxOther == 2

----------------------------------------------------------------------------
(* The clock and setTimeout / clearTimeout *)

ClockIdle ==
    /\ now = 0
    /\ timers = {}
    /\ nextId = 1
    /\ wait = 0
    /\ calls = <<>>
    /\ execs = <<>>

DebounceIdle == timeoutId = 0
ThrottleIdle == inThrottle = FALSE

LoopIdle ==
    /\ prog = "none"
    /\ stack = <<>>
    /\ microQ = <<>>
    /\ macroQ = <<>>
    /\ out = <<>>

WrapIdle ==
    /\ cancels = <<>>
    /\ immediate = FALSE
    /\ lastArgs = 0

RetryIdle ==
    /\ maxAttempts = 0
    /\ attempt = 0
    /\ retryPc = "none"
    /\ lastError = <<>>
    /\ outcome = [kind |-> "none", val |-> <<>>]
    /\ attemptLog = <<>>
    /\ waits = <<>>

OnceIdle ==
    /\ hasRun = FALSE
    /\ onceResult = <<>>
    /\ onceCalls = <<>>
    /\ onceRuns = <<>>

MemoIdle ==
    /\ cache = {}
    /\ memoCalls = <<>>
    /\ memoRuns = <<>>

ProfileIdle ==
    /\ userId = 0
    /\ user = <<>>
    /\ loading = FALSE
    /\ requests = <<>>
    /\ applied = <<>>

CountIdle ==
    /\ count = 0
    /\ renderedCount = 0
    /\ updateQueue = <<>>
    /\ clicks = <<>>

SumIdle ==
    /\ sumImpl = "none"
    /\ sumAcc = 0
    /\ sumPending = <<>>
    /\ sumSupplied = <<>>
    /\ sumState = "none"

AcIdle ==
    /\ acArgs = <<>>
    /\ acState = "none"
    /\ acInvoked = <<>>
    /\ acChain = <<>>

PairIdle ==
    /\ timersB = {}
    /\ timeoutIdB = 0
    /\ execsB = <<>>

BankIdle ==
    /\ balance = <<"finite", 0>>
    /\ bankLog = <<>>

ShopIdle ==
    /\ items = <<>>
    /\ total = 0
    /\ shopLog = <<>>

CtxIdle ==
    /\ ctxItems = <<>>
    /\ ctxTotal = 0
    /\ ctxQueue = <<>>

StopwatchIdle ==
    /\ time = 0
    /\ isRunning = FALSE
    /\ queuedRunning = FALSE
    /\ intervalRef = 0
    /\ intervals = {}
    /\ nextInterval = 1
    /\ swLog = <<>>

BatchIdle ==
    /\ data = <<>>
    /\ original = <<>>
    /\ currentIndex = 0
    /\ batchPc = "none"
    /\ batchLog = <<>>
    /\ processed = <<>>
    /\ otherTasks = 0

MoreIdle ==
    /\ SumIdle /\ AcIdle /\ PairIdle /\ BankIdle
    /\ ShopIdle /\ CtxIdle /\ StopwatchIdle /\ BatchIdle

ExtIdle ==
    /\ WrapIdle /\ RetryIdle /\ OnceIdle /\ MemoIdle /\ ProfileIdle /\ CountIdle
    /\ MoreIdle

\* The wrapper has just been created, with its delay / limit chosen.
InitClock ==
    /\ now = 0
    /\ timers = {}
    /\ nextId = 1
    /\ wait \in 1..MaxWait
    /\ calls = <<>>
    /\ execs = <<>>

\* setTimeout(callback, ms) with ts pending: the new timer carries the
\* arguments its callback closes over, and its id is the value returned.
SetTimeout(ts, ms, args) == ts \cup {[id |-> nextId, due |-> now + ms, args |-> args]}

\* clearTimeout(id): a no-op for undefined and for a timer that has fired.
ClearTimeout(ts, id) == {t \in ts : t.id # id}

\* The time of the most recent call of the wrapped function.
LastCallTime == calls[Len(calls)].t

\* func.apply(this, args)
Apply(args) ==
    Append(execs, [t |-> now, args |-> args,
                   sinceCall |-> IF calls = <<>> THEN 0 ELSE now - LastCallTime])

\* The callback of the timer uses no arguments of the call.
NoArgs == 0

\* Each call passes its own, distinguishable arguments: its number.
NewArgs == Len(calls) + 1

\* Time passes.  A timer's callback runs when the timer is due: the clock
\* does not move past a due timer.
Tick ==
    /\ now < MaxTime
    /\ \A t \in timers : t.due > now
    /\ now' = now + 1
    /\ UNCHANGED <<timers, nextId, wait, calls, execs>>
    /\ UNCHANGED <<curryVars, debounceVars, throttleVars, loopVars, extVars>>

----------------------------------------------------------------------------
(* curry(fn) *)

\* The set of all sequences over S of length exactly n.
SeqsOfLen(S, n) == [1..n -> S]

\* fn is an arbitrary function: its result is the application term itself, so
\* two results are equal only if fn received the same arguments in the same order.
fn(args) == <<"fn", args>>

\* A mutant of Concat: the new arguments are put before the held ones.
ConcatSwapped(args, nextArgs) == nextArgs \o args

\* args.concat(nextArgs)
Concat(args, nextArgs) == args \o nextArgs

\* curried(...args): invoke fn once enough arguments are held, otherwise
\* return a closure holding args.
Curried(args) ==
    IF Len(args) >= fnLength
    THEN [kind |-> "value", val |-> fn(args), held |-> <<>>, invoked |-> <<args>>]
    ELSE [kind |-> "function", val |-> <<>>, held |-> args, invoked |-> <<>>]

CurryIdle ==
    /\ fnLength = 0
    /\ pending = <<>>
    /\ supplied = <<>>
    /\ held = <<>>
    /\ returned = "none"
    /\ retVal = <<>>
    /\ fnCalls = <<>>
    /\ groups = <<>>

\* const curriedFn = curry(fn): nothing is held, nothing has been called.
InitCurry ==
    /\ fnLength \in 1..MaxArity
    /\ pending \in SeqsOfLen(0..MaxArg, fnLength)
    /\ supplied = <<>>
    /\ held = <<>>
    /\ returned = "function"
    /\ retVal = <<>>
    /\ fnCalls = <<>>
    /\ groups = <<>>
    /\ ClockIdle /\ DebounceIdle /\ ThrottleIdle /\ LoopIdle /\ ExtIdle

\* One call of the function last returned, with the next k (>= 1) arguments.
\* The first call is curried(...group); a later call is the inner closure,
\* which calls curried(args.concat(nextArgs)).
CallCurried(k) ==
    /\ returned = "function"
    /\ k \in 1..Len(pending)
    /\ LET nextArgs == SubSeq(pending, 1, k)
           r == Curried(Concat(held, nextArgs))
       IN /\ pending' = SubSeq(pending, k + 1, Len(pending))
          /\ supplied' = supplied \o nextArgs
          /\ held' = r.held
          /\ returned' = r.kind
          /\ retVal' = r.val
          /\ fnCalls' = fnCalls \o r.invoked
          /\ groups' = Append(groups, k)
    /\ UNCHANGED <<fnLength, clockVars, debounceVars, throttleVars, loopVars, extVars>>

NextCurry == \E k \in 1..MaxArity : CallCurried(k)

SpecCurry == InitCurry /\ [][NextCurry]_vars

----------------------------------------------------------------------------
(* C1: for every fn of arity n in 1..6 and every split of a1..an into         *)
(* non-empty groups passed to successive calls of curry(fn), the final call   *)
(* returns exactly fn(a1, ..., an); every earlier call (fewer than n          *)
(* arguments accumulated) returns a function and does not invoke fn.          *)
C1_CurrySplit ==
    /\ Len(supplied) < fnLength =>
         /\ returned = "function"
         /\ fnCalls = <<>>
         /\ held = supplied
    /\ Len(supplied) = fnLength =>
         /\ pending = <<>>
         /\ returned = "value"
         /\ retVal = fn(supplied)
         /\ fnCalls = <<supplied>>

\* A chain of at least three calls, one of them with several arguments, has
\* ended; the argument values are not all the same.
C1_Witness ==
    /\ Len(groups) >= 3
    /\ \E i \in 1..Len(groups) : groups[i] >= 2
    /\ returned = "value"
    /\ \E i, j \in 1..Len(supplied) : supplied[i] # supplied[j]
    /\ retVal = fn(supplied)

----------------------------------------------------------------------------
(* debounce(func, delay) *)

\* A mutant of DebounceClear: the pending timer is not cancelled.
DebounceNoClear == timers

\* clearTimeout(timeoutId)
DebounceClear == ClearTimeout(timers, timeoutId)

\* A mutant of DebounceDelay: the timer is set one ms short of delay.
DebounceDelayShort == wait - 1

\* the delay of the timer that executes func
DebounceDelay == wait

\* A call of the debounced function: cancel the pending timer, start a new one.
DebouncedCall ==
    /\ Len(calls) < MaxCalls
    /\ LET args == NewArgs
       IN /\ calls' = Append(calls, [t |-> now, args |-> args, cooldown |-> FALSE])
          /\ timers' = SetTimeout(DebounceClear, DebounceDelay, args)
          /\ timeoutId' = nextId
          /\ nextId' = nextId + 1
    /\ UNCHANGED <<now, wait, execs>>
    /\ UNCHANGED <<curryVars, throttleVars, loopVars, extVars>>

\* The timer's callback: func.apply(this, args).
DebounceTimerFire ==
    /\ \E t \in timers :
         /\ t.due <= now
         /\ execs' = Apply(t.args)
         /\ timers' = timers \ {t}
    /\ UNCHANGED <<now, nextId, wait, calls, timeoutId>>
    /\ UNCHANGED <<curryVars, throttleVars, loopVars, extVars>>

InitDebounce == InitClock /\ DebounceIdle /\ ThrottleIdle /\ CurryIdle /\ LoopIdle /\ ExtIdle

NextDebounce == DebouncedCall \/ DebounceTimerFire \/ Tick

SpecDebounce == InitDebounce /\ [][NextDebounce]_vars

----------------------------------------------------------------------------
(* Claims about debounce *)

LastCall == calls[Len(calls)]

\* Every call so far came less than delay ms after the previous one.
Burst == \A i \in 2..Len(calls) : calls[i].t - calls[i - 1].t < wait

(* C2: if the debounced function is called N >= 1 times, each call less than  *)
(* delay ms after the previous one, and then no more, func is executed        *)
(* exactly once, delay ms after the last call, with the last call's           *)
(* arguments; no earlier call's arguments are ever passed to func.            *)
C2_DebounceBurst ==
    (calls # <<>> /\ Burst) =>
        /\ Len(execs) <= 1
        /\ \A i \in 1..Len(execs) :
             /\ execs[i].args = LastCall.args
             /\ execs[i].t = LastCall.t + wait
        /\ now > LastCall.t + wait => Len(execs) = 1
        /\ execs = <<>> =>
             \E t \in timers : t.args = LastCall.args /\ t.due = LastCall.t + wait

\* A burst of at least three calls has ended and func has run for it.
C2_Witness ==
    /\ Len(calls) >= 3
    /\ Burst
    /\ wait >= 2
    /\ LastCall.t > 0
    /\ Len(execs) = 1
    /\ now > LastCall.t + wait

(* C4: func is never executed when less than delay ms have elapsed since the  *)
(* most recent call of the debounced function; every call cancels the         *)
(* pending timer, so at most one timer is pending at any time.                *)
C4_DebounceQuiet ==
    /\ \A i \in 1..Len(execs) : execs[i].sinceCall >= wait
    /\ Cardinality(timers) <= 1

\* func has run twice, the second time for a call that cancelled a timer, and
\* a timer is pending again.
C4_Witness ==
    /\ Len(execs) = 2
    /\ execs[2].args > execs[1].args + 1
    /\ Cardinality(timers) = 1

----------------------------------------------------------------------------
(* throttle(func, limit) *)

\* A mutant of ThrottleCooldown: the timer is set one ms short of limit.
ThrottleCooldownShort == wait - 1

\* the delay of the timer that ends the cooldown
ThrottleCooldown == wait

\* A mutant of InThrottleAfterExec: the flag is not raised.
InThrottleNotSet == FALSE

\* inThrottle = true, after func.apply
InThrottleAfterExec == TRUE

\* A mutant of InThrottleAfterTimer: the callback leaves the flag raised.
InThrottleNotReset == TRUE

\* inThrottle = false, in the timer's callback
InThrottleAfterTimer == FALSE

\* A call of the throttled function: outside a cooldown it executes func and
\* starts the cooldown; inside a cooldown it does nothing.
ThrottledCall ==
    /\ Len(calls) < MaxCalls
    /\ LET args == NewArgs
       IN /\ calls' = Append(calls, [t |-> now, args |-> args, cooldown |-> inThrottle])
          /\ IF ~inThrottle
             THEN /\ execs' = Apply(args)
                  /\ inThrottle' = InThrottleAfterExec
                  /\ timers' = SetTimeout(timers, ThrottleCooldown, NoArgs)
                  /\ nextId' = nextId + 1
             ELSE UNCHANGED <<execs, inThrottle, timers, nextId>>
    /\ UNCHANGED <<now, wait>>
    /\ UNCHANGED <<curryVars, debounceVars, loopVars, extVars>>

\* The timer's callback: inThrottle = false.
ThrottleTimerFire ==
    /\ \E t \in timers :
         /\ t.due <= now
         /\ timers' = timers \ {t}
    /\ inThrottle' = InThrottleAfterTimer
    /\ UNCHANGED <<now, nextId, wait, calls, execs>>
    /\ UNCHANGED <<curryVars, debounceVars, loopVars, extVars>>

InitThrottle == InitClock /\ DebounceIdle /\ ThrottleIdle /\ CurryIdle /\ LoopIdle /\ ExtIdle

NextThrottle == ThrottledCall \/ ThrottleTimerFire \/ Tick

SpecThrottle == InitThrottle /\ [][NextThrottle]_vars

----------------------------------------------------------------------------
(* Claims about throttle *)

\* ceil(a / b) for a >= 0, b > 0
CeilDiv(a, b) == (a + b - 1) \div b

\* Call i executed func: an execution at its time with its arguments.
Executed(i) == \E j \in 1..Len(execs) : execs[j].t = calls[i].t /\ execs[j].args = calls[i].args

----------------------------------------------------------------------------
(* The event loop and the example programs of the event-loop chapter *)

\* The statements of the examples.
Log(msg) == [op |-> "log", s |-> msg, body |-> <<>>]
\* setTimeout(() => { body }, 0)
Timeout(b) == [op |-> "setTimeout", s |-> "", body |-> b]
\* Promise.resolve().then(() => { body }) and queueMicrotask(() => { body })
Then(b) == [op |-> "then", s |-> "", body |-> b]
\* a call of an async function with this body
AsyncCall(b) == [op |-> "call", s |-> "", body |-> b]
\* await Promise.resolve()
Await == [op |-> "await", s |-> "", body |-> <<>>]

\* Promise.resolve().then(cb1).then(cb2)...: the promise a then returns is
\* resolved when its callback returns, which queues the next callback.
RECURSIVE Chain(_)
Chain(cbs) ==
    Then(cbs[1] \o (IF Len(cbs) > 1 THEN <<Chain(Tail(cbs))>> ELSE <<>>))

codeExecutionOrder ==
    << Log("Start"),
       Timeout(<<Log("Timeout")>>),
       Then(<<Log("Promise")>>),
       Log("End") >>

visualizing ==
    << Log("Start"),
       Timeout(<<Log("Timeout")>>),
       Chain(<< <<Log("Promise 1")>>, <<Log("Promise 2")>> >>),
       AsyncCall(<<Log("Async start"), Await, Log("Async end")>>),
       Log("End") >>

basicOrder ==
    << Log("1 - Synchronous"),
       Timeout(<<Log("2 - Timeout (Macrotask)")>>),
       Then(<<Log("3 - Promise (Microtask)")>>),
       Log("4 - Synchronous") >>

multipleTasksExample ==
    << Log("Start"),
       Timeout(<<Log("Timeout 1")>>),
       Timeout(<<Log("Timeout 2")>>),
       Chain(<< <<Log("Promise 1")>>, <<Log("Promise 2")>> >>),
       Log("End") >>

\* the executor of new Promise runs synchronously, then resolve() and .then
promiseExecutorTiming ==
    << Log("1"),
       Log("2 - Inside Promise executor (sync!)"),
       Then(<<Log("3 - Then callback (microtask)")>>),
       Log("4") >>

testAsyncTiming ==
    << Log("Start"),
       AsyncCall(<<Log("1"), Await, Log("2 - After await (microtask)")>>),
       Log("End") >>

mixedExample ==
    << Log("1"),
       Timeout(<<Log("2 - setTimeout")>>),
       Chain(<< <<Log("3 - Promise 1")>>,
                <<Log("4 - Promise 2"),
                  Timeout(<<Log("5 - setTimeout inside Promise")>>)>> >>),
       Log("6") >>

microtaskExhaustion ==
    << Log("Start"),
       Timeout(<<Log("Timeout")>>),
       Then(<<Log("Promise 1"),
              Then(<<Log("Promise 2 (created by Promise 1)")>>)>>),
       Log("End") >>

queueComparison ==
    << Log("Script start"),
       Timeout(<<Log("setTimeout")>>),
       Chain(<< <<Log("Promise 1")>>, <<Log("Promise 2")>> >>),
       Then(<<Log("queueMicrotask")>>),
       Log("Script end") >>

nestedSetTimeout ==
    << Log("Start"),
       Timeout(<<Log("Outer timeout"),
                 Timeout(<<Log("Inner timeout")>>),
                 Then(<<Log("Promise inside timeout")>>)>>),
       Log("End") >>

testMultipleAwaits ==
    << Log("Start"),
       AsyncCall(<<Log("1"), Await, Log("2"), Await, Log("3"), Await, Log("4")>>),
       Log("End") >>

promiseCreationComparison ==
    << Log("1"),
       Then(<<Log("2")>>),
       Log("3"),
       Then(<<Log("4")>>),
       Log("5") >>

callStackVisualization ==
    << Log("1 - Call stack has this"),
       Then(<<Log("3 - Call stack was empty, now executing microtask")>>),
       Log("2 - Call stack still has this") >>

complexScenario ==
    << Log("1"),
       Timeout(<<Log("2")>>),
       Await,
       Log("3"),
       Timeout(<<Log("4")>>),
       Then(<<Log("5")>>),
       Log("6") >>

runComplexScenario ==
    << Log("Start"),
       AsyncCall(complexScenario),
       Log("End") >>

Programs ==
    { "codeExecutionOrder", "visualizing", "basicOrder", "multipleTasksExample",
      "promiseExecutorTiming", "testAsyncTiming", "mixedExample",
      "microtaskExhaustion", "queueComparison", "nestedSetTimeout",
      "testMultipleAwaits", "promiseCreationComparison", "callStackVisualization",
      "runComplexScenario" }

Program(name) ==
    CASE name = "codeExecutionOrder" -> codeExecutionOrder
      [] name = "visualizing" -> visualizing
      [] name = "basicOrder" -> basicOrder
      [] name = "multipleTasksExample" -> multipleTasksExample
      [] name = "promiseExecutorTiming" -> promiseExecutorTiming
      [] name = "testAsyncTiming" -> testAsyncTiming
      [] name = "mixedExample" -> mixedExample
      [] name = "microtaskExhaustion" -> microtaskExhaustion
      [] name = "queueComparison" -> queueComparison
      [] name = "nestedSetTimeout" -> nestedSetTimeout
      [] name = "testMultipleAwaits" -> testMultipleAwaits
      [] name = "promiseCreationComparison" -> promiseCreationComparison
      [] name = "callStackVisualization" -> callStackVisualization
      [] name = "runComplexScenario" -> runComplexScenario

\* The example is called: its body is the only frame of the call stack.
InitLoop ==
    /\ prog \in Programs
    /\ stack = << Program(prog) >>
    /\ microQ = <<>>
    /\ macroQ = <<>>
    /\ out = <<>>
    /\ CurryIdle /\ ClockIdle /\ DebounceIdle /\ ThrottleIdle /\ ExtIdle

\* The statement the top frame executes next, and the stack once it is done.
Running(kind) == stack # <<>> /\ stack[1] # <<>> /\ stack[1][1].op = kind
Stmt == stack[1][1]
Advanced == <<Tail(stack[1])>> \o Tail(stack)

\* A mutant of Enqueue: the new job is put at the front of the queue.
EnqueueFront(q, job) == <<job>> \o q

\* A queue with a new job: the queues are first in, first out.
Enqueue(q, job) == Append(q, job)

\* console.log(msg)
ExecLog ==
    /\ Running("log")
    /\ out' = Append(out, Stmt.s)
    /\ stack' = Advanced
    /\ UNCHANGED <<prog, microQ, macroQ>>
    /\ UNCHANGED <<curryVars, clockVars, debounceVars, throttleVars, extVars>>

\* setTimeout(callback, 0): the callback goes to the macrotask queue
ExecSetTimeout ==
    /\ Running("setTimeout")
    /\ macroQ' = Enqueue(macroQ, Stmt.body)
    /\ stack' = Advanced
    /\ UNCHANGED <<prog, microQ, out>>
    /\ UNCHANGED <<curryVars, clockVars, debounceVars, throttleVars, extVars>>

\* .then(callback) on a resolved promise: the callback goes to the microtask queue
ExecThen ==
    /\ Running("then")
    /\ microQ' = Enqueue(microQ, Stmt.body)
    /\ stack' = Advanced
    /\ UNCHANGED <<prog, macroQ, out>>
    /\ UNCHANGED <<curryVars, clockVars, debounceVars, throttleVars, extVars>>

\* a call of an async function: its body runs synchronously in a new frame
ExecCall ==
    /\ Running("call")
    /\ stack' = <<Stmt.body>> \o Advanced
    /\ UNCHANGED <<prog, microQ, macroQ, out>>
    /\ UNCHANGED <<curryVars, clockVars, debounceVars, throttleVars, extVars>>

\* A mutant of AwaitContinuation: the function resumes one microtask later.
AwaitContinuationLate == <<Then(Tail(stack[1]))>>

\* The job an await on a resolved promise queues: the rest of the function.
AwaitContinuation == Tail(stack[1])

\* A mutant of AwaitStack: the function goes on without yielding.
AwaitStackNoYield == Advanced

\* The call stack after an await: the frame is left, the caller goes on.
AwaitStack == Tail(stack)

\* await Promise.resolve(): the rest of the function goes to the microtask
\* queue and control returns to the caller
ExecAwait ==
    /\ Running("await")
    /\ microQ' = Enqueue(microQ, AwaitContinuation)
    /\ stack' = AwaitStack
    /\ UNCHANGED <<prog, macroQ, out>>
    /\ UNCHANGED <<curryVars, clockVars, debounceVars, throttleVars, extVars>>

\* the end of a function or callback: its frame is popped
ExecReturn ==
    /\ stack # <<>> /\ stack[1] = <<>>
    /\ stack' = Tail(stack)
    /\ UNCHANGED <<prog, microQ, macroQ, out>>
    /\ UNCHANGED <<curryVars, clockVars, debounceVars, throttleVars, extVars>>

\* A mutant of MacroReady: the loop does not look at the microtask queue.
MacroReadyIgnoringMicrotasks == stack = <<>> /\ macroQ # <<>>

\* The call stack is empty: the loop takes the oldest microtask.
MicroReady == stack = <<>> /\ microQ # <<>>

\* The call stack and the microtask queue are empty: the loop takes the
\* oldest macrotask.
MacroReady == stack = <<>> /\ microQ = <<>> /\ macroQ # <<>>

RunMicrotask ==
    /\ MicroReady
    /\ stack' = <<Head(microQ)>>
    /\ microQ' = Tail(microQ)
    /\ UNCHANGED <<prog, macroQ, out>>
    /\ UNCHANGED <<curryVars, clockVars, debounceVars, throttleVars, extVars>>

RunMacrotask ==
    /\ MacroReady
    /\ stack' = <<Head(macroQ)>>
    /\ macroQ' = Tail(macroQ)
    /\ UNCHANGED <<prog, microQ, out>>
    /\ UNCHANGED <<curryVars, clockVars, debounceVars, throttleVars, extVars>>

NextLoop ==
    \/ ExecLog \/ ExecSetTimeout \/ ExecThen \/ ExecCall \/ ExecAwait \/ ExecReturn
    \/ RunMicrotask \/ RunMacrotask

SpecLoop == InitLoop /\ [][NextLoop]_vars

\* Nothing is running and nothing is queued: the example has printed everything.
LoopDone == prog # "none" /\ stack = <<>> /\ microQ = <<>> /\ macroQ = <<>>

----------------------------------------------------------------------------
(* Claims about the event loop *)

IsPrefix(a, b) == Len(a) <= Len(b) /\ a = SubSeq(b, 1, Len(a))

\* The example prints expected, in this order, and nothing else.
Prints(name, expected) ==
    prog = name => /\ IsPrefix(out, expected)
                   /\ LoopDone => out = expected

(* C7: all microtasks run before the next macrotask: no setTimeout callback   *)
(* starts while the microtask queue is non-empty, including microtasks        *)
(* queued by another microtask; microtaskExhaustion prints Start, End,        *)
(* Promise 1, Promise 2 (created by Promise 1), Timeout.                      *)
C7_MicrotasksFirst ==
    /\ [][Len(macroQ') < Len(macroQ) => microQ = <<>>]_vars
    /\ [](Prints("microtaskExhaustion",
                 << "Start", "End", "Promise 1",
                    "Promise 2 (created by Promise 1)", "Timeout" >>))

\* In microtaskExhaustion a microtask queued by a microtask waits beside the
\* timer's callback.
C7_Witness ==
    /\ prog = "microtaskExhaustion"
    /\ out = <<"Start", "End", "Promise 1">>
    /\ stack = <<>>
    /\ microQ # <<>>
    /\ macroQ # <<>>

(* C8: in basicOrder and multipleTasksExample the synchronous statements log  *)
(* first, then the promise callbacks in chain order, then the                 *)
(* setTimeout(..., 0) callbacks in the order they were registered:            *)
(* basicOrder prints 1, 4, 3, 2 and multipleTasksExample prints Start, End,   *)
(* Promise 1, Promise 2, Timeout 1, Timeout 2.                                *)
C8_BasicOrders ==
    /\ Prints("basicOrder",
              << "1 - Synchronous", "4 - Synchronous",
                 "3 - Promise (Microtask)", "2 - Timeout (Macrotask)" >>)
    /\ Prints("multipleTasksExample",
              << "Start", "End", "Promise 1", "Promise 2", "Timeout 1", "Timeout 2" >>)

\* multipleTasksExample has printed all six lines.
C8_Witness ==
    /\ prog = "multipleTasksExample"
    /\ LoopDone
    /\ Len(out) = 6

(* C9: the program of 'Visualizing with real code' logs Start, Async start,   *)
(* End, Promise 1, Async end, Promise 2, Timeout: 'Async end' runs between    *)
(* 'Promise 1' and 'Promise 2'.                                               *)
C9_Visualizing ==
    Prints("visualizing",
           << "Start", "Async start", "End", "Promise 1", "Async end",
              "Promise 2", "Timeout" >>)

\* 'Promise 1' has run and queued 'Promise 2' behind the rest of test().
C9_Witness ==
    /\ prog = "visualizing"
    /\ out = <<"Start", "Async start", "End", "Promise 1">>
    /\ stack = <<>>
    /\ microQ = << <<Log("Async end")>>, <<Log("Promise 2")>> >>

(* C10: runComplexScenario logs exactly Start, 1, End, 3, 6, 5, 2, 4.         *)
C10_ComplexScenario ==
    Prints("runComplexScenario", << "Start", "1", "End", "3", "6", "5", "2", "4" >>)

\* complexScenario has resumed after its await and has finished: '5' is queued
\* as a microtask and both timers wait, '2' before '4'.
C10_Witness ==
    /\ prog = "runComplexScenario"
    /\ out = <<"Start", "1", "End", "3", "6">>
    /\ microQ = << <<Log("5")>> >>
    /\ macroQ = << <<Log("2")>>, <<Log("4")>> >>

----------------------------------------------------------------------------
(* debounceWithCancel(func, delay) *)

\* the topics no timer wrapper touches
notWrapVars ==
    <<curryVars, loopVars, retryVars, onceVars, memoVars, profileVars, countVars,
      moreVars>>

\* debounced(...args): cancel the pending timer, start a new one.
CancellableCall ==
    /\ Len(calls) < MaxCalls
    /\ LET args == NewArgs
       IN /\ calls' = Append(calls, [t |-> now, args |-> args, cooldown |-> FALSE])
          /\ timers' = SetTimeout(ClearTimeout(timers, timeoutId), wait, args)
          /\ timeoutId' = nextId
          /\ nextId' = nextId + 1
    /\ UNCHANGED <<now, wait, execs, throttleVars, wrapVars, notWrapVars>>

\* A mutant of CancelClear: cancel() leaves the timer pending.
CancelNoClear == timers

\* clearTimeout(timeoutId), in cancel
CancelClear == ClearTimeout(timers, timeoutId)

\* debounced.cancel()
Cancel ==
    /\ Len(cancels) < MaxCancels
    /\ timers' = CancelClear
    /\ cancels' = Append(cancels, [t |-> now, after |-> Len(calls)])
    /\ UNCHANGED <<now, nextId, wait, calls, execs, timeoutId, immediate, lastArgs>>
    /\ UNCHANGED <<throttleVars, notWrapVars>>

\* The timer's callback: func.apply(this, args).
CancellableTimerFire ==
    /\ \E t \in timers :
         /\ t.due <= now
         /\ execs' = Apply(t.args)
         /\ timers' = timers \ {t}
    /\ UNCHANGED <<now, nextId, wait, calls, timeoutId, throttleVars, wrapVars, notWrapVars>>

InitDebounceCancel ==
    /\ InitClock /\ DebounceIdle /\ ThrottleIdle /\ CurryIdle /\ LoopIdle /\ ExtIdle

NextDebounceCancel == CancellableCall \/ Cancel \/ CancellableTimerFire \/ Tick

SpecDebounceCancel == InitDebounceCancel /\ [][NextDebounceCancel]_vars

----------------------------------------------------------------------------
(* Claims about debounceWithCancel *)

\* func has been executed with the arguments of call i.
ExecutedFor(i) == \E j \in 1..Len(execs) : execs[j].args = calls[i].args

\* cancel() was called after call i, before any other call and before delay
\* ms had elapsed.
CancelledEarly(i) ==
    \E c \in 1..Len(cancels) : cancels[c].after = i /\ cancels[c].t < calls[i].t + wait

\* Call i was neither cancelled nor superseded within delay ms.
Undisturbed(i) ==
    /\ \A c \in 1..Len(cancels) : cancels[c].after = i => cancels[c].t > calls[i].t + wait
    /\ i < Len(calls) => calls[i + 1].t > calls[i].t + wait

(* C11: if cancel() is called after a call of the debounced function and      *)
(* before delay ms have elapsed, func is never executed for that call; a      *)
(* later call re-arms the timer and executes func delay ms after it, unless   *)
(* it is cancelled or superseded in turn.                                     *)
C11_DebounceCancel ==
    /\ \A i \in 1..Len(calls) : CancelledEarly(i) => ~ExecutedFor(i)
    /\ \A i \in 1..Len(calls) :
         Undisturbed(i) =>
            /\ \A j \in 1..Len(execs) :
                 execs[j].args = calls[i].args => execs[j].t = calls[i].t + wait
            /\ now > calls[i].t + wait => ExecutedFor(i)
            /\ ~ExecutedFor(i) =>
                 \E t \in timers : t.args = calls[i].args /\ t.due = calls[i].t + wait
    /\ \A j, k \in 1..Len(execs) : execs[j].args = execs[k].args => j = k

\* A call was cancelled while its timer was pending, and func has run for a
\* call made after the cancel.
C11_Witness ==
    \E i, k \in 1..Len(calls) :
        /\ i < k
        /\ CancelledEarly(i)
        /\ calls[i].t > 0
        /\ \E c \in 1..Len(cancels) : cancels[c].after = i /\ cancels[c].t > calls[i].t
        /\ ~ExecutedFor(i)
        /\ ExecutedFor(k)

----------------------------------------------------------------------------
(* debounceImmediate(func, delay, immediate) *)

\* A mutant of TimeoutIdAfterFire: the callback leaves timeoutId as it is.
TimeoutIdKept == timeoutId

\* timeoutId = null, in the timer's callback; null is falsy like undefined
TimeoutIdAfterFire == 0

\* const callNow = immediate && !timeoutId
CallNow == immediate /\ timeoutId = 0

\* A call of the returned function: cancel the pending timer, start a new
\* one, and execute func at once when callNow.
ImmediateCall ==
    /\ Len(calls) < MaxCalls
    /\ LET args == NewArgs
       IN /\ calls' = Append(calls, [t |-> now, args |-> args, cooldown |-> timers # {}])
          /\ timers' = SetTimeout(ClearTimeout(timers, timeoutId), wait, args)
          /\ timeoutId' = nextId
          /\ nextId' = nextId + 1
          /\ execs' = IF CallNow THEN Apply(args) ELSE execs
    /\ UNCHANGED <<now, wait, throttleVars, wrapVars, notWrapVars>>

\* The timer's callback: timeoutId = null, and func.apply unless immediate.
ImmediateTimerFire ==
    /\ \E t \in timers :
         /\ t.due <= now
         /\ execs' = IF ~immediate THEN Apply(t.args) ELSE execs
         /\ timers' = timers \ {t}
    /\ timeoutId' = TimeoutIdAfterFire
    /\ UNCHANGED <<now, nextId, wait, calls, throttleVars, wrapVars, notWrapVars>>

InitDebounceImmediate ==
    /\ InitClock /\ DebounceIdle /\ ThrottleIdle /\ CurryIdle /\ LoopIdle
    /\ cancels = <<>>
    /\ immediate \in BOOLEAN
    /\ lastArgs = 0
    /\ RetryIdle /\ OnceIdle /\ MemoIdle /\ ProfileIdle /\ CountIdle
    /\ MoreIdle

NextDebounceImmediate == ImmediateCall \/ ImmediateTimerFire \/ Tick

SpecDebounceImmediate == InitDebounceImmediate /\ [][NextDebounceImmediate]_vars

----------------------------------------------------------------------------
(* Claims about debounceImmediate *)

\* With immediate = true: func runs for a call exactly when no timer was
\* pending at the call, at the call's time and with its arguments; a call
\* leaves exactly one timer, due delay ms after it.
LeadingEdge ==
    /\ \A i \in 1..Len(calls) : ExecutedFor(i) <=> ~calls[i].cooldown
    /\ \A j \in 1..Len(execs) :
         \E i \in 1..Len(calls) : calls[i].args = execs[j].args /\ calls[i].t = execs[j].t
    /\ Len(execs) = Cardinality({i \in 1..Len(calls) : ~calls[i].cooldown})
    /\ \A i \in 1..Len(calls) :
         /\ (i = 1 \/ calls[i].t > calls[i - 1].t + wait) => ~calls[i].cooldown
         /\ (i > 1 /\ calls[i].t < calls[i - 1].t + wait) => calls[i].cooldown
    /\ \A t \in timers : t.args = LastCall.args /\ t.due = LastCall.t + wait
    /\ Cardinality(timers) <= 1
    /\ (calls # <<>> /\ now < LastCall.t + wait) => timers # {}

(* C12: for debounceImmediate(func, delay, true) func executes only on the    *)
(* leading edge: a call executes func immediately with its own arguments      *)
(* exactly when no timer is pending (the first call, or a call after delay    *)
(* ms of silence); a call made while a timer is pending does not execute      *)
(* func and restarts the delay; func is never executed from the timer         *)
(* callback.                                                                  *)
C12_LeadingEdge ==
    /\ [](immediate => LeadingEdge)
    /\ [][(immediate /\ calls' = calls) => execs' = execs]_vars

\* With immediate = true: a call executed, a call during the delay did not,
\* and a call after delay ms of silence executed again.
C12_Witness ==
    /\ immediate
    /\ wait >= 2
    /\ \E i, j, k \in 1..Len(calls) :
         /\ i < j /\ j < k
         /\ ExecutedFor(i) /\ ~ExecutedFor(j) /\ ExecutedFor(k)
         /\ calls[j].t > calls[i].t
         /\ calls[k].t > calls[j].t + wait

----------------------------------------------------------------------------
(* throttleTrailing(func, limit) *)

\* A mutant of LastArgsAfterTrailing: the stored arguments are kept.
LastArgsKept == lastArgs

\* lastArgs = null, after the trailing execution
LastArgsAfterTrailing == 0

\* A call of the returned function: outside a cooldown it executes func and
\* starts the cooldown; inside a cooldown it stores its arguments.
TrailingCall ==
    /\ Len(calls) < MaxCalls
    /\ LET args == NewArgs
       IN /\ calls' = Append(calls, [t |-> now, args |-> args, cooldown |-> inThrottle])
          /\ IF ~inThrottle
             THEN /\ execs' = Apply(args)
                  /\ inThrottle' = TRUE
                  /\ timers' = SetTimeout(timers, wait, NoArgs)
                  /\ nextId' = nextId + 1
                  /\ UNCHANGED lastArgs
             ELSE /\ lastArgs' = args
                  /\ UNCHANGED <<execs, inThrottle, timers, nextId>>
    /\ UNCHANGED <<now, wait, cancels, immediate, debounceVars, notWrapVars>>

\* The timer's callback: the cooldown ends, and func is executed with the
\* stored arguments, if any.
TrailingTimerFire ==
    /\ \E t \in timers :
         /\ t.due <= now
         /\ timers' = timers \ {t}
    /\ inThrottle' = FALSE
    /\ IF lastArgs # 0
       THEN /\ execs' = Apply(lastArgs)
            /\ lastArgs' = LastArgsAfterTrailing
       ELSE UNCHANGED <<execs, lastArgs>>
    /\ UNCHANGED <<now, nextId, wait, calls, cancels, immediate, debounceVars, notWrapVars>>

InitThrottleTrailing ==
    /\ InitClock /\ DebounceIdle /\ ThrottleIdle /\ CurryIdle /\ LoopIdle /\ ExtIdle

NextThrottleTrailing == TrailingCall \/ TrailingTimerFire \/ Tick

SpecThrottleTrailing == InitThrottleTrailing /\ [][NextThrottleTrailing]_vars

----------------------------------------------------------------------------
(* Claims about throttleTrailing *)

\* The calls that executed func at once and so started a cooldown.
Leaders == {i \in 1..Len(calls) : ~calls[i].cooldown}

\* The calls that arrived during the cooldown call l started.
Suppressed(l) ==
    {i \in 1..Len(calls) :
        /\ i > l
        /\ calls[i].cooldown
        /\ \A k \in Leaders : k <= l \/ k > i}

\* The timer of the cooldown call l started has fired.
CooldownOver(l) == ~inThrottle \/ \E k \in Leaders : k > l

\* The number of executions of func with the arguments of call i.
TimesExecuted(i) == Cardinality({j \in 1..Len(execs) : execs[j].args = calls[i].args})

Latest(S) == CHOOSE i \in S : \A k \in S : k <= i

C14_TrailingSeparation ==
    \A i, j \in 1..Len(execs) : i < j => execs[j].t - execs[i].t >= wait

----------------------------------------------------------------------------
(* fetchWithRetry(url, maxAttempts = 3) *)

notRetryVars ==
    <<baseVars, wrapVars, onceVars, memoVars, profileVars, countVars,
      moreVars>>

\* maxAttempts = 3, the default
DefaultMaxAttempts == 3

\* 1000, the factor of the delay
RetryBaseDelay == 1000

\* What an attempt can end in: the data, or an error thrown by fetch (network),
\* by the response.ok test (http) or by response.json() (json).
AttemptResults == {"ok", "network", "http", "json"}

\* the data and the errors of the attempts are all different
ResponseData(n) == <<"data", n>>
AttemptError(n, res) == <<"error", n, res>>

\* A mutant of RetryMore: the loop stops one attempt early.
RetryMoreShort == attempt < maxAttempts

\* attempt <= maxAttempts, the loop's test
RetryMore == attempt <= maxAttempts

\* 1000 * attempt
RetryDelay == RetryBaseDelay * attempt

\* fetchWithRetry(url, maxAttempts) is called: lastError is undefined and
\* the loop starts at attempt 1.
InitRetry ==
    /\ maxAttempts \in 0..MaxRetries
    /\ attempt = 1
    /\ retryPc = "loop"
    /\ lastError = <<>>
    /\ outcome = [kind |-> "none", val |-> <<>>]
    /\ attemptLog = <<>>
    /\ waits = <<>>
    /\ CurryIdle /\ ClockIdle /\ DebounceIdle /\ ThrottleIdle /\ LoopIdle
    /\ WrapIdle /\ OnceIdle /\ MemoIdle /\ ProfileIdle /\ CountIdle
    /\ MoreIdle

\* One pass of the loop body: the try block, and the catch block up to the
\* await of delay(...).
RetryAttempt(res) ==
    /\ retryPc = "loop"
    /\ RetryMore
    /\ attemptLog' = Append(attemptLog, [n |-> attempt, res |-> res])
    /\ IF res = "ok"
       THEN /\ retryPc' = "returned"
            /\ outcome' = [kind |-> "return", val |-> ResponseData(attempt)]
            /\ UNCHANGED <<lastError, attempt, waits>>
       ELSE /\ lastError' = AttemptError(attempt, res)
            /\ IF attempt < maxAttempts
               THEN /\ waits' = Append(waits, RetryDelay)
                    /\ retryPc' = "delay"
                    /\ UNCHANGED attempt
               ELSE /\ attempt' = attempt + 1
                    /\ UNCHANGED <<waits, retryPc>>
            /\ UNCHANGED outcome
    /\ UNCHANGED <<maxAttempts, notRetryVars>>

\* The delay is over: attempt++.
RetryDelayDone ==
    /\ retryPc = "delay"
    /\ attempt' = attempt + 1
    /\ retryPc' = "loop"
    /\ UNCHANGED <<maxAttempts, lastError, outcome, attemptLog, waits, notRetryVars>>

\* The loop has ended: throw lastError.
RetryThrow ==
    /\ retryPc = "loop"
    /\ ~RetryMore
    /\ retryPc' = "thrown"
    /\ outcome' = [kind |-> "throw", val |-> lastError]
    /\ UNCHANGED <<maxAttempts, attempt, lastError, attemptLog, waits, notRetryVars>>

NextRetry == (\E res \in AttemptResults : RetryAttempt(res)) \/ RetryDelayDone \/ RetryThrow

SpecRetry == InitRetry /\ [][NextRetry]_vars

----------------------------------------------------------------------------
(* Claims about fetchWithRetry *)

Failed(k) == attemptLog[k].res # "ok"

(* C15: fetchWithRetry performs attempts 1, 2, ... in order and at most       *)
(* maxAttempts of them; it returns the data of the first successful attempt   *)
(* without making any further attempt; if every attempt fails it throws the   *)
(* error of the last attempt; it never returns normally without data.         *)
C15_RetryResult ==
    /\ Len(attemptLog) <= maxAttempts
    /\ \A k \in 1..Len(attemptLog) : attemptLog[k].n = k
    /\ \A k \in 1..(Len(attemptLog) - 1) : Failed(k)
    /\ retryPc = "returned" <=> (attemptLog # <<>> /\ ~Failed(Len(attemptLog)))
    /\ retryPc = "returned" => outcome = [kind |-> "return", val |-> ResponseData(Len(attemptLog))]
    /\ retryPc = "thrown" <=>
         (/\ Len(attemptLog) = maxAttempts
          /\ (\A k \in 1..Len(attemptLog) : Failed(k))
          /\ outcome.kind = "throw")
    /\ (retryPc = "thrown" /\ maxAttempts >= 1) =>
         outcome.val = AttemptError(maxAttempts, attemptLog[maxAttempts].res)
    /\ retryPc \in {"loop", "delay"} <=> outcome.kind = "none"

\* The third attempt succeeded after two different failures.
C15_Witness ==
    /\ retryPc = "returned"
    /\ Len(attemptLog) = 3
    /\ maxAttempts > 3
    /\ attemptLog[1].res # attemptLog[2].res
    /\ outcome.val = ResponseData(3)

(* C16: with the default maxAttempts, fetchWithRetry waits with a growing     *)
(* delay: 1 s after the first failed attempt, 2 s after the second, 3 s       *)
(* after the third.                                                           *)
C16_GrowingDelays ==
    maxAttempts = DefaultMaxAttempts =>
        \A k \in 1..Len(attemptLog) :
            Failed(k) => /\ Len(waits) >= k
                         /\ waits[k] = RetryBaseDelay * k

----------------------------------------------------------------------------
(* once(fn) *)

notOnceVars ==
    <<baseVars, wrapVars, retryVars, memoVars, profileVars, countVars,
      moreVars>>

\* The argument lists the returned function is called with: two arguments.
OnceArgs == (0..MaxArg) \X (0..MaxArg)

\* fn(...args) when it returns: a value that tells the argument lists apart.
OnceFn(args) == <<"fn", args>>

\* A mutant of HasRunAfterCall: the first call leaves hasRun false.
HasRunNotSet == FALSE

\* hasRun = true
HasRunAfterCall == TRUE

\* const f = once(fn)
InitOnce ==
    /\ hasRun = FALSE
    /\ onceResult = <<>>
    /\ onceCalls = <<>>
    /\ onceRuns = <<>>
    /\ CurryIdle /\ ClockIdle /\ DebounceIdle /\ ThrottleIdle /\ LoopIdle
    /\ WrapIdle /\ RetryIdle /\ MemoIdle /\ ProfileIdle /\ CountIdle
    /\ MoreIdle

\* f(...args); throws says whether fn, if it is invoked, throws.
OnceCall(args, throws) ==
    /\ Len(onceCalls) < MaxCalls
    /\ IF ~hasRun
       THEN /\ hasRun' = HasRunAfterCall
            /\ onceRuns' = Append(onceRuns, [args |-> args, threw |-> throws])
            /\ IF throws
               THEN /\ UNCHANGED onceResult
                    /\ onceCalls' = Append(onceCalls,
                           [args |-> args, kind |-> "throw", ret |-> <<>>])
               ELSE /\ onceResult' = OnceFn(args)
                    /\ onceCalls' = Append(onceCalls,
                           [args |-> args, kind |-> "return", ret |-> OnceFn(args)])
       ELSE /\ onceCalls' = Append(onceCalls,
                           [args |-> args, kind |-> "return", ret |-> onceResult])
            /\ UNCHANGED <<hasRun, onceResult, onceRuns>>
    /\ UNCHANGED notOnceVars

NextOnce == \E args \in OnceArgs, throws \in BOOLEAN : OnceCall(args, throws)

SpecOnce == InitOnce /\ [][NextOnce]_vars

----------------------------------------------------------------------------
(* Claims about once *)

(* C17: over any sequence of calls of the function once(fn) returns, fn is    *)
(* invoked at most once, by the first call and with its arguments, and every  *)
(* call, the first included, returns the value fn returned on that            *)
(* invocation.                                                                *)
C17_Once ==
    /\ Len(onceRuns) <= 1
    /\ onceCalls # <<>> => /\ Len(onceRuns) = 1
                           /\ onceRuns[1].args = onceCalls[1].args
    /\ (onceRuns # <<>> /\ ~onceRuns[1].threw) =>
          \A i \in 1..Len(onceCalls) :
              /\ onceCalls[i].kind = "return"
              /\ onceCalls[i].ret = OnceFn(onceCalls[1].args)

\* Three calls with different arguments, all returning the first one's value.
C17_Witness ==
    /\ Len(onceCalls) >= 3
    /\ onceCalls[2].args # onceCalls[1].args
    /\ onceCalls[3].args # onceCalls[1].args
    /\ ~onceRuns[1].threw
    /\ onceCalls[3].ret = OnceFn(onceCalls[1].args)

----------------------------------------------------------------------------
(* memoize(fn) *)

notMemoVars ==
    <<baseVars, wrapVars, retryVars, onceVars, profileVars, countVars,
      moreVars>>

\* The numbers the memoized function is called with.
MemoArgs == (0 - MaxArg)..MaxArg

\* (num) => num * num
expensiveOperation(num) == num * num

\* The conversion to a boolean of a number: only 0 is false.
Truthy(v) == v # 0

CacheHas(arg) == \E e \in cache : e.key = arg

\* cache[arg] for a key that is there
CacheGet(arg) == (CHOOSE e \in cache : e.key = arg).val

\* if (cache[arg]); a missing key reads undefined
CacheHit(arg) == CacheHas(arg) /\ Truthy(CacheGet(arg))

\* cache = {}
InitMemoize ==
    /\ cache = {}
    /\ memoCalls = <<>>
    /\ memoRuns = <<>>
    /\ CurryIdle /\ ClockIdle /\ DebounceIdle /\ ThrottleIdle /\ LoopIdle
    /\ WrapIdle /\ RetryIdle /\ OnceIdle /\ ProfileIdle /\ CountIdle
    /\ MoreIdle

\* the returned function, called with arg
MemoizedCall(arg) ==
    /\ Len(memoCalls) < MaxCalls
    /\ IF CacheHit(arg)
       THEN /\ memoCalls' = Append(memoCalls,
                   [arg |-> arg, ret |-> CacheGet(arg), computed |-> FALSE])
            /\ UNCHANGED <<cache, memoRuns>>
       ELSE /\ memoRuns' = Append(memoRuns, arg)
            /\ cache' = {e \in cache : e.key # arg}
                           \cup {[key |-> arg, val |-> expensiveOperation(arg)]}
            /\ memoCalls' = Append(memoCalls,
                   [arg |-> arg, ret |-> expensiveOperation(arg), computed |-> TRUE])
    /\ UNCHANGED notMemoVars

NextMemoize == \E arg \in MemoArgs : MemoizedCall(arg)

SpecMemoize == InitMemoize /\ [][NextMemoize]_vars

----------------------------------------------------------------------------
(* Claims about memoize *)

TimesComputed(arg) == Cardinality({i \in DOMAIN memoRuns : memoRuns[i] = arg})

(* C18: for every argument value the first call with it invokes fn and        *)
(* stores the result, every later call with it returns the stored result      *)
(* without invoking fn again, and so fn is invoked at most once per distinct  *)
(* argument over any call sequence.                                           *)
C18_MemoizeOnce ==
    /\ \A arg \in MemoArgs : TimesComputed(arg) <= 1
    /\ \A i \in DOMAIN memoCalls :
          /\ memoCalls[i].ret = expensiveOperation(memoCalls[i].arg)
          /\ memoCalls[i].computed <=>
                 (\A j \in 1..(i - 1) : memoCalls[j].arg # memoCalls[i].arg)

----------------------------------------------------------------------------
(* UserProfileSafe *)

notProfileVars ==
    <<baseVars, wrapVars, retryVars, onceVars, memoVars, countVars,
      moreVars>>

\* The data of the response to request number req, made for user id uid.
UserData(uid, req) == <<uid, req>>

\* let cancelled = false; fetchUser() up to its first await
NewRequest(uid) == [uid |-> uid, cancelled |-> FALSE, status |-> "pending", at |-> 0]

\* A mutant of CleanupCancelled: the cleanup leaves cancelled false.
CleanupNotCancelled == FALSE

\* cancelled = true, in the cleanup
CleanupCancelled == TRUE

\* The cleanup of the last run of the effect.
Cleanup(reqs) ==
    [i \in DOMAIN reqs |->
        IF i = Len(reqs) THEN [reqs[i] EXCEPT !.cancelled = CleanupCancelled] ELSE reqs[i]]

\* The component has mounted with initialUserId and its effect has run.
InitProfile ==
    /\ userId \in 1..MaxUser
    /\ user = <<>>
    /\ loading = TRUE
    /\ requests = <<NewRequest(userId)>>
    /\ applied = <<>>
    /\ CurryIdle /\ ClockIdle /\ DebounceIdle /\ ThrottleIdle /\ LoopIdle
    /\ WrapIdle /\ RetryIdle /\ OnceIdle /\ MemoIdle /\ CountIdle
    /\ MoreIdle

\* setUserId(id), the render that follows, the cleanup of the previous effect
\* and the new run of the effect.
SetUserId(id) ==
    /\ Len(requests) < MaxRequests
    /\ userId' = id
    /\ requests' = Append(Cleanup(requests), NewRequest(id))
    /\ loading' = TRUE
    /\ UNCHANGED <<user, applied, notProfileVars>>

\* the button Previous
PreviousClick ==
    /\ userId # 1
    /\ SetUserId(userId - 1)

\* the button Next
NextClick ==
    /\ userId # MaxUser
    /\ SetUserId(userId + 1)

Settled == Cardinality({i \in DOMAIN requests : requests[i].status # "pending"})

\* Request i settles: fetchUser resumes after its awaits (ok), or in its catch
\* block (not ok), and then runs its finally block.
Settle(i, ok) ==
    /\ requests[i].status = "pending"
    /\ requests' = [requests EXCEPT ![i].status = IF ok THEN "ok" ELSE "failed",
                                    ![i].at = Settled + 1]
    /\ IF requests[i].cancelled
       THEN UNCHANGED <<user, loading, applied>>
       ELSE /\ user' = IF ok THEN UserData(requests[i].uid, i) ELSE user
            /\ loading' = FALSE
            /\ applied' = applied
                  \o (IF ok THEN <<[call |-> "setUser", req |-> i,
                                    latest |-> i = Len(requests)]>> ELSE <<>>)
                  \o <<[call |-> "setLoading", req |-> i, latest |-> i = Len(requests)]>>
    /\ UNCHANGED <<userId, notProfileVars>>

NextProfile ==
    \/ PreviousClick
    \/ NextClick
    \/ \E i \in DOMAIN requests, ok \in BOOLEAN : Settle(i, ok)

SpecProfile == InitProfile /\ [][NextProfile]_vars

----------------------------------------------------------------------------
(* Claims about UserProfileSafe *)

AllSettled == \A i \in DOMAIN requests : requests[i].status # "pending"

\* No superseded request has called setUser or setLoading.
NoStaleApplied == \A k \in DOMAIN applied : applied[k].latest

LatestRequest == requests[Len(requests)]

\* The user set by the last setUser call, null when there was none.
LastSetUser ==
    LET S == {k \in DOMAIN applied : applied[k].call = "setUser"}
    IN  IF S = {} THEN <<>>
        ELSE LET k == CHOOSE m \in S : \A n \in S : n <= m
             IN  UserData(requests[applied[k].req].uid, applied[k].req)

(* C19 as stated: a response that belongs to an earlier userId is never      *)
(* applied, and after all requests have settled the displayed user is the     *)
(* response for the latest userId and loading is false.                       *)
C19_Original ==
    /\ NoStaleApplied
    /\ AllSettled => /\ user = UserData(userId, Len(requests))
                     /\ ~loading

(* C19: a response that belongs to an earlier userId is never applied (the    *)
(* superseded fetch calls neither setUser nor setLoading), and after all      *)
(* requests have settled loading is false and the user is the response for    *)
(* the latest userId if the latest request succeeded; if it failed the user   *)
(* is still the one set before, or null.                                      *)
C19_LatestWins ==
    /\ NoStaleApplied
    /\ user = LastSetUser
    /\ LatestRequest.uid = userId
    /\ AllSettled =>
          /\ ~loading
          /\ LatestRequest.status = "ok" => user = UserData(userId, Len(requests))
          /\ LatestRequest.status = "failed" =>
                \/ user = <<>>
                \/ /\ user[2] < Len(requests)
                   /\ requests[user[2]].status = "ok"

\* Three requests answered in the reverse order, all successfully.
C19_Witness ==
    /\ Len(requests) = 3
    /\ AllSettled
    /\ \A i \in 1..3 : requests[i].status = "ok"
    /\ requests[3].at = 1
    /\ requests[1].at = 3
    /\ user = UserData(userId, 3)

----------------------------------------------------------------------------
(* FunctionalUpdates *)

notCountVars ==
    <<baseVars, wrapVars, retryVars, onceVars, memoVars, profileVars,
      moreVars>>

\* setCount(value) and setCount(prev => prev + 1), as queued updates
ValueUpdate(v) == [fn |-> FALSE, value |-> v]
FunctionalUpdate == [fn |-> TRUE, value |-> 0]

\* A mutant of UpdaterArg: the updater gets the count of the last render.
UpdaterArgStale(prev) == renderedCount

\* The argument React passes to an updater: the state the updates queued
\* before it have produced.
UpdaterArg(prev) == prev

\* One queued update applied to the state prev.
ApplyUpdate(u, prev) == IF u.fn THEN UpdaterArg(prev) + 1 ELSE u.value

RECURSIVE ProcessQueue(_, _)
ProcessQueue(q, state) ==
    IF q = <<>> THEN state ELSE ProcessQueue(Tail(q), ApplyUpdate(Head(q), state))

\* -1 marks a click whose updates have not been rendered yet
NotRendered == 0 - 1

\* useState(0) and the first render
InitCount ==
    /\ count = 0
    /\ renderedCount = 0
    /\ updateQueue = <<>>
    /\ clicks = <<>>
    /\ CurryIdle /\ ClockIdle /\ DebounceIdle /\ ThrottleIdle /\ LoopIdle
    /\ WrapIdle /\ RetryIdle /\ OnceIdle /\ MemoIdle /\ ProfileIdle
    /\ MoreIdle

\* A click runs a handler of the last render; React renders before the next
\* click is handled.
Click(handler, updates) ==
    /\ updateQueue = <<>>
    /\ Len(clicks) < MaxClicks
    /\ updateQueue' = updates
    /\ clicks' = Append(clicks,
           [handler |-> handler, before |-> count, after |-> NotRendered])
    /\ UNCHANGED <<count, renderedCount, notCountVars>>

\* setCount(count + 1); setCount(count + 1);
incrementTwice ==
    Click("incrementTwice",
          <<ValueUpdate(renderedCount + 1), ValueUpdate(renderedCount + 1)>>)

\* setCount(prev => prev + 1); setCount(prev => prev + 1);
incrementTwiceCorrect ==
    Click("incrementTwiceCorrect", <<FunctionalUpdate, FunctionalUpdate>>)

\* () => setCount(0)
Reset == Click("reset", <<ValueUpdate(0)>>)

\* The render after the click: the queued updates are applied in order and
\* the handlers close over the new count.
Render ==
    /\ updateQueue # <<>>
    /\ count' = ProcessQueue(updateQueue, count)
    /\ renderedCount' = count'
    /\ updateQueue' = <<>>
    /\ clicks' = [clicks EXCEPT ![Len(clicks)].after = count']
    /\ UNCHANGED notCountVars

NextCount == incrementTwice \/ incrementTwiceCorrect \/ Reset \/ Render

SpecCount == InitCount /\ [][NextCount]_vars

----------------------------------------------------------------------------
(* Claims about FunctionalUpdates *)

Rendered(i) == clicks[i].after # NotRendered

(* C20: one click handled by incrementTwice raises count by exactly 1, and    *)
(* one click handled by incrementTwiceCorrect raises count by exactly 2,      *)
(* from any starting count.                                                   *)
C20_FunctionalUpdates ==
    \A i \in DOMAIN clicks :
        Rendered(i) =>
            /\ clicks[i].handler = "incrementTwice" =>
                   clicks[i].after = clicks[i].before + 1
            /\ clicks[i].handler = "incrementTwiceCorrect" =>
                   clicks[i].after = clicks[i].before + 2

\* Both handlers have run from a count that is not 0.
C20_Witness ==
    /\ \E i \in DOMAIN clicks :
          /\ clicks[i].handler = "incrementTwice"
          /\ clicks[i].before > 0
          /\ clicks[i].after = clicks[i].before + 1
    /\ \E i \in DOMAIN clicks :
          /\ clicks[i].handler = "incrementTwiceCorrect"
          /\ clicks[i].before > 0
          /\ clicks[i].after = clicks[i].before + 2
    /\ count = renderedCount
    /\ count >= 5

----------------------------------------------------------------------------
(* useDebounce(callback, delay) *)

\* the topics before the third group of specifications
earlierVars == <<baseVars, wrapVars, retryVars, onceVars, memoVars, profileVars, countVars>>

EarlierIdle ==
    /\ CurryIdle /\ ClockIdle /\ DebounceIdle /\ ThrottleIdle /\ LoopIdle
    /\ WrapIdle /\ RetryIdle /\ OnceIdle /\ MemoIdle /\ ProfileIdle /\ CountIdle

\* debouncedSearch(value), as SearchComponent calls it: a new timer is set,
\* and the function that would clear it is returned and dropped.
UseDebounceCall ==
    /\ Len(calls) < MaxCalls
    /\ LET args == NewArgs
       IN /\ calls' = Append(calls, [t |-> now, args |-> args, cooldown |-> FALSE])
          /\ timers' = SetTimeout(timers, wait, args)
          /\ nextId' = nextId + 1
    /\ UNCHANGED <<now, wait, execs>>
    /\ UNCHANGED <<curryVars, debounceVars, throttleVars, loopVars, extVars>>

\* The timer's callback: callbackRef.current(...args).
UseDebounceTimerFire ==
    /\ \E t \in timers :
         /\ t.due <= now
         /\ execs' = Apply(t.args)
         /\ timers' = timers \ {t}
    /\ UNCHANGED <<now, nextId, wait, calls>>
    /\ UNCHANGED <<curryVars, debounceVars, throttleVars, loopVars, extVars>>

InitUseDebounce == InitClock /\ DebounceIdle /\ ThrottleIdle /\ CurryIdle /\ LoopIdle /\ ExtIdle

NextUseDebounce == UseDebounceCall \/ UseDebounceTimerFire \/ Tick

SpecUseDebounce == InitUseDebounce /\ [][NextUseDebounce]_vars

----------------------------------------------------------------------------
(* Claims about useDebounce *)

(* C21: when the function returned by useDebounce(callback, delay) is called  *)
(* several times with less than delay ms between consecutive calls, callback  *)
(* is invoked only once, for the last call's arguments, delay ms after the    *)
(* last call.                                                                 *)
C21_UseDebounce ==
    (Len(calls) >= 2 /\ Burst) =>
        /\ Len(execs) <= 1
        /\ \A j \in 1..Len(execs) :
             /\ execs[j].args = calls[Len(calls)].args
             /\ execs[j].t = calls[Len(calls)].t + wait

----------------------------------------------------------------------------
(* curry(add), the README's replacement for nested functions *)

\* add.length: add has only a rest parameter
AddLength == 0

RECURSIVE SumSeq(_)
SumSeq(s) == IF s = <<>> THEN 0 ELSE Head(s) + SumSeq(Tail(s))

\* args.reduce((sum, n) => sum + n, 0)
add(args) == SumSeq(args)

\* curried(...args) for fn = add
CurriedAdd(args) ==
    IF Len(args) >= fnLength
    THEN [kind |-> "value", val |-> <<add(args)>>, held |-> <<>>, invoked |-> <<args>>]
    ELSE [kind |-> "function", val |-> <<>>, held |-> args, invoked |-> <<>>]

\* const curriedAdd = curry(add), and the six numbers it is to be given
InitCurryAdd ==
    /\ fnLength = AddLength
    /\ pending \in SeqsOfLen(0..MaxArg, MaxArity)
    /\ supplied = <<>>
    /\ held = <<>>
    /\ returned = "function"
    /\ retVal = <<>>
    /\ fnCalls = <<>>
    /\ groups = <<>>
    /\ ClockIdle /\ DebounceIdle /\ ThrottleIdle /\ LoopIdle /\ ExtIdle

\* The next argument is passed to the function the last call returned.
CallCurriedAdd ==
    /\ returned = "function"
    /\ pending # <<>>
    /\ LET nextArgs == <<Head(pending)>>
           r == CurriedAdd(Concat(held, nextArgs))
       IN /\ pending' = Tail(pending)
          /\ supplied' = supplied \o nextArgs
          /\ held' = r.held
          /\ returned' = r.kind
          /\ retVal' = r.val
          /\ fnCalls' = fnCalls \o r.invoked
          /\ groups' = Append(groups, 1)
    /\ UNCHANGED <<fnLength, clockVars, debounceVars, throttleVars, loopVars, extVars>>

\* The next argument is passed to what the last call returned, a number:
\* the call throws a TypeError.
CallNumber ==
    /\ returned = "value"
    /\ pending # <<>>
    /\ returned' = "TypeError"
    /\ UNCHANGED <<fnLength, pending, supplied, held, retVal, fnCalls, groups>>
    /\ UNCHANGED <<clockVars, debounceVars, throttleVars, loopVars, extVars>>

NextCurryAdd == CallCurriedAdd \/ CallNumber

SpecCurryAdd == InitCurryAdd /\ [][NextCurryAdd]_vars

----------------------------------------------------------------------------
(* C22: curriedAdd = curry(add) can be called one argument at a time, and     *)
(* curriedAdd(a)(b)(c)(d)(e)(f) returns a + b + c + d + e + f.                *)
C22_CurriedAdd ==
    /\ returned # "TypeError"
    /\ pending # <<>> => returned = "function"
    /\ pending = <<>> => /\ returned = "value"
                         /\ retVal = <<SumSeq(supplied)>>

----------------------------------------------------------------------------
(* infiniteSum(a) of the implementation file and sum(a) of the README *)

notSumVars == <<earlierVars, acVars, pairVars, bankVars, shopVars, ctxVars, stopwatchVars, batchVars>>

\* The test the returned function makes on its argument b, a number:
\* b !== undefined in infiniteSum, the truthiness of b in sum.
SumContinues(b) == IF sumImpl = "infiniteSum" THEN TRUE ELSE b # 0

\* The chain f(a1)(a2)...(an)() is about to be evaluated.
InitSum ==
    /\ sumImpl \in {"infiniteSum", "sum"}
    /\ sumPending \in UNION {SeqsOfLen(0..MaxArg, n) : n \in 1..MaxNumbers}
    /\ sumSupplied = <<>>
    /\ sumAcc = 0
    /\ sumState = "start"
    /\ EarlierIdle /\ AcIdle /\ PairIdle /\ BankIdle
    /\ ShopIdle /\ CtxIdle /\ StopwatchIdle /\ BatchIdle

\* f(a1): the closure over a = a1 is returned.
SumFirst ==
    /\ sumState = "start"
    /\ sumAcc' = Head(sumPending)
    /\ sumPending' = Tail(sumPending)
    /\ sumSupplied' = Append(sumSupplied, Head(sumPending))
    /\ sumState' = "function"
    /\ UNCHANGED <<sumImpl, notSumVars>>

\* The returned function is called with the next number b: it returns
\* f(a + b), or a when its test on b fails.
SumNext ==
    /\ sumState = "function"
    /\ sumPending # <<>>
    /\ LET b == Head(sumPending)
       IN /\ sumPending' = Tail(sumPending)
          /\ sumSupplied' = Append(sumSupplied, b)
          /\ IF SumContinues(b)
             THEN /\ sumAcc' = sumAcc + b
                  /\ UNCHANGED sumState
             ELSE /\ sumState' = "value"
                  /\ UNCHANGED sumAcc
    /\ UNCHANGED <<sumImpl, notSumVars>>

\* The final call (): b is undefined and a is returned.
SumEnd ==
    /\ sumState = "function"
    /\ sumPending = <<>>
    /\ sumState' = "done"
    /\ UNCHANGED <<sumImpl, sumAcc, sumPending, sumSupplied, notSumVars>>

\* The chain goes on after a number was returned: calling it throws.
SumCallNumber ==
    /\ sumState = "value"
    /\ sumState' = "TypeError"
    /\ UNCHANGED <<sumImpl, sumAcc, sumPending, sumSupplied, notSumVars>>

NextSum == SumFirst \/ SumNext \/ SumEnd \/ SumCallNumber

SpecSum == InitSum /\ [][NextSum]_vars

----------------------------------------------------------------------------
(* C23: for every finite sequence of numbers, including sequences that        *)
(* contain 0, f(a1)(a2)...(an)() = a1 + ... + an, both for infiniteSum and    *)
(* for the README's sum.                                                      *)
C23_SumChain ==
    /\ sumState \notin {"value", "TypeError"}
    /\ sumState = "done" => /\ sumPending = <<>>
                            /\ sumAcc = SumSeq(sumSupplied)

----------------------------------------------------------------------------
(* advancedCurry(fn), for fn = divide *)

notAcVars == <<earlierVars, sumVars, pairVars, bankVars, shopVars, ctxVars, stopwatchVars, batchVars>>

\* divide.length
DivideLength == 3

\* The symbol __ and the value undefined; the arguments proper are the
\* numbers 1, 2, ... in the order in which the chain supplies them.
Placeholder == 0 - 1
Undefined == 0 - 2

\* args.includes(__)
HasPlaceholder(args) == \E i \in DOMAIN args : args[i] = Placeholder

\* args.map(arg => arg === __ ? nextArgs.shift() : arg) leaves the mapped
\* array (filled) and what is left of nextArgs (rest); missing is the value
\* a placeholder gets once nextArgs is empty.
RECURSIVE Fill(_, _, _)
Fill(args, nextArgs, missing) ==
    IF args = <<>> THEN [filled |-> <<>>, rest |-> nextArgs]
    ELSE IF Head(args) = Placeholder
         THEN LET r == Fill(Tail(args),
                            IF nextArgs = <<>> THEN <<>> ELSE Tail(nextArgs), missing)
              IN  [filled |-> <<IF nextArgs = <<>> THEN missing ELSE Head(nextArgs)>>
                                  \o r.filled,
                   rest |-> r.rest]
         ELSE LET r == Fill(Tail(args), nextArgs, missing)
              IN  [filled |-> <<Head(args)>> \o r.filled, rest |-> r.rest]

\* [...newArgs, ...nextArgs]; shift() of an empty array returns undefined
NewArgsOf(args, nextArgs) ==
    LET r == Fill(args, nextArgs, Undefined) IN r.filled \o r.rest

\* The argument lists a call can have: up to DivideLength entries, each the
\* placeholder or an argument proper (written 1).
ArgPatterns == UNION {SeqsOfLen({Placeholder, 1}, n) : n \in 0..DivideLength}

\* The arguments proper supplied by the calls so far.
RECURSIVE CountSupplied(_)
CountSupplied(chain) ==
    IF chain = <<>> THEN 0
    ELSE Cardinality({i \in DOMAIN Head(chain) : Head(chain)[i] # Placeholder})
            + CountSupplied(Tail(chain))

\* The pattern with its arguments proper numbered from base + 1.
RECURSIVE Stamp(_, _)
Stamp(p, base) ==
    IF p = <<>> THEN <<>>
    ELSE IF Head(p) = Placeholder THEN <<Placeholder>> \o Stamp(Tail(p), base)
         ELSE <<base + 1>> \o Stamp(Tail(p), base + 1)

\* const curriedDivide = advancedCurry(divide)
InitAdvancedCurry ==
    /\ acArgs = <<>>
    /\ acState = "start"
    /\ acInvoked = <<>>
    /\ acChain = <<>>
    /\ EarlierIdle /\ SumIdle /\ PairIdle /\ BankIdle
    /\ ShopIdle /\ CtxIdle /\ StopwatchIdle /\ BatchIdle

\* curried(...args): invoke fn, or return the closure over args.
AdvancedCurried(args) ==
    IF ~HasPlaceholder(args) /\ Len(args) >= DivideLength
    THEN /\ acInvoked' = Append(acInvoked, args)
         /\ acState' = "value"
         /\ acArgs' = <<>>
    ELSE /\ acState' = "function"
         /\ acArgs' = args
         /\ UNCHANGED acInvoked

\* curriedDivide(...args)
FirstCall(p) ==
    /\ acState = "start"
    /\ acChain' = <<Stamp(p, 0)>>
    /\ AdvancedCurried(Stamp(p, 0))
    /\ UNCHANGED notAcVars

\* A follow-up call of the function the last call returned.
FollowUpCall(p) ==
    /\ acState = "function"
    /\ Len(acChain) < MaxChain
    /\ LET nextArgs == Stamp(p, CountSupplied(acChain))
       IN /\ acChain' = Append(acChain, nextArgs)
          /\ AdvancedCurried(NewArgsOf(acArgs, nextArgs))
    /\ UNCHANGED notAcVars

NextAdvancedCurry ==
    \/ \E p \in ArgPatterns : FirstCall(p)
    \/ \E p \in ArgPatterns : FollowUpCall(p)

SpecAdvancedCurry == InitAdvancedCurry /\ [][NextAdvancedCurry]_vars

----------------------------------------------------------------------------
(* Claims about advancedCurry *)

\* What the chain holds by the rule of C24: each call's arguments fill the
\* pending placeholders from left to right, the remaining ones are appended,
\* and a placeholder no argument was supplied for stays pending.
RECURSIVE Resolved(_, _)
Resolved(chain, heldArgs) ==
    IF chain = <<>> THEN heldArgs
    ELSE LET r == Fill(heldArgs, Head(chain), Placeholder)
         IN  Resolved(Tail(chain), r.filled \o r.rest)

(* C24: in each follow-up call the supplied arguments first fill the pending  *)
(* placeholders from left to right and any remaining ones are appended; fn    *)
(* is invoked only when no placeholder remains and at least fn.length         *)
(* arguments are held, and then with every argument in its placeholder-       *)
(* resolved position.                                                         *)
C24_Placeholders ==
    LET h == Resolved(acChain, <<>>)
    IN  /\ acState = "function" => acArgs = h
        /\ acState = "value" => /\ ~HasPlaceholder(h)
                                /\ Len(h) >= DivideLength
                                /\ acInvoked = <<h>>
        /\ acState # "value" => acInvoked = <<>>

----------------------------------------------------------------------------
(* debounceImmediate(func, delay, false) next to debounce(func, delay):      *)
(* the two wrappers are given the same calls at the same instants, and a     *)
(* call made at the instant a timer is due comes before the callback in both *)
(* wrappers or after it in both.                                              *)

notPairVars ==
    <<curryVars, throttleVars, loopVars, wrapVars, retryVars, onceVars, memoVars,
      profileVars, countVars, sumVars, acVars, bankVars, shopVars, ctxVars,
      stopwatchVars, batchVars>>

\* A mutant of PairClear: debounceImmediate leaves its pending timer.
PairNoClear == timersB

\* clearTimeout(timeoutId), in debounceImmediate
PairClear == ClearTimeout(timersB, timeoutIdB)

\* const callNow = immediate && !timeoutId, in debounceImmediate
PairCallNow == immediate /\ timeoutIdB = 0

\* func.apply(this, args), in debounceImmediate
ApplyB(args) == Append(execsB, [t |-> now, args |-> args, sinceCall |-> now - LastCallTime])

\* Both wrappers are called with the same arguments: debounce takes the
\* timer id nextId, debounceImmediate the next one.
PairCall ==
    /\ Len(calls) < MaxCalls
    /\ LET args == NewArgs
       IN /\ calls' = Append(calls, [t |-> now, args |-> args, cooldown |-> FALSE])
          /\ timers' = SetTimeout(ClearTimeout(timers, timeoutId), wait, args)
          /\ timeoutId' = nextId
          /\ timersB' = PairClear \cup {[id |-> nextId + 1, due |-> now + wait, args |-> args]}
          /\ timeoutIdB' = nextId + 1
          /\ nextId' = nextId + 2
          /\ execsB' = IF PairCallNow
                       THEN Append(execsB, [t |-> now, args |-> args, sinceCall |-> 0])
                       ELSE execsB
    /\ UNCHANGED <<now, wait, execs, notPairVars>>

\* The instant a timer is due: the callback of debounce's timer and the
\* callback of debounceImmediate's timer run, each in its own wrapper.
PairTimersFire ==
    /\ \E t \in timers \cup timersB : t.due <= now
    /\ IF \E t \in timers : t.due <= now
       THEN \E t \in timers :
               /\ t.due <= now
               /\ execs' = Apply(t.args)
               /\ timers' = timers \ {t}
       ELSE UNCHANGED <<execs, timers>>
    /\ IF \E t \in timersB : t.due <= now
       THEN /\ \E t \in timersB :
                 /\ t.due <= now
                 /\ execsB' = IF ~immediate THEN ApplyB(t.args) ELSE execsB
                 /\ timersB' = timersB \ {t}
            /\ timeoutIdB' = TimeoutIdAfterFire
       ELSE UNCHANGED <<execsB, timersB, timeoutIdB>>
    /\ UNCHANGED <<now, nextId, wait, calls, timeoutId, notPairVars>>

\* Time passes, once the timers due in both wrappers have run.
PairTick ==
    /\ now < MaxTime
    /\ \A t \in timers \cup timersB : t.due > now
    /\ now' = now + 1
    /\ UNCHANGED <<timers, nextId, wait, calls, execs, timeoutId, pairVars, notPairVars>>

\* Both wrappers have just been created; immediate is false.
InitDebouncePair == InitClock /\ DebounceIdle /\ ThrottleIdle /\ CurryIdle /\ LoopIdle /\ ExtIdle

NextDebouncePair == PairCall \/ PairTimersFire \/ PairTick

SpecDebouncePair == InitDebouncePair /\ [][NextDebouncePair]_vars

----------------------------------------------------------------------------
(* Claims about the pair *)

\* The timers as the instants and arguments they will execute func with.
Planned(ts) == {[t |-> x.due, args |-> x.args] : x \in ts}

\* The executions made together with those still to come.
Executions(es, ts) ==
    {[t |-> es[j].t, args |-> es[j].args] : j \in DOMAIN es} \cup Planned(ts)

(* C25: debounceImmediate(func, delay, false) behaves exactly like            *)
(* debounce(func, delay): for every timed sequence of calls the two wrappers  *)
(* execute func at the same instants with the same arguments.                 *)
C25_SameExecutions ==
    /\ Executions(execs, timers) = Executions(execsB, timersB)
    /\ (\A t \in timers \cup timersB : t.due > now) => execs = execsB
    /\ \A j \in DOMAIN execs : j <= Len(execsB) => execs[j] = execsB[j]
    /\ \A j \in DOMAIN execsB : j <= Len(execs) => execs[j] = execsB[j]

\* func has run twice in both wrappers, a call in between was superseded.
C25_Witness ==
    /\ Len(execsB) = 2
    /\ execs = execsB
    /\ Len(calls) >= 3
    /\ execsB[2].args > execsB[1].args + 1
    /\ timers = {} /\ timersB = {}

----------------------------------------------------------------------------
(* createBankAccount(initialBalance), implementation file *)

notBankVars == <<earlierVars, sumVars, acVars, pairVars, shopVars, ctxVars, stopwatchVars, batchVars>>

\* The JavaScript numbers: the finite ones (integers here), Infinity,
\* -Infinity and NaN.
Finite(n) == <<"finite", n>>
PosInfinity == <<"Infinity", 0>>
NegInfinity == <<"-Infinity", 0>>
NaN == <<"NaN", 0>>

IsFinite(x) == x[1] = "finite"

\* -x
Negate(x) ==
    IF IsFinite(x) THEN Finite(0 - x[2])
    ELSE IF x = PosInfinity THEN NegInfinity
    ELSE IF x = NegInfinity THEN PosInfinity
    ELSE NaN

\* x + y
Plus(x, y) ==
    IF x = NaN \/ y = NaN THEN NaN
    ELSE IF IsFinite(x) /\ IsFinite(y) THEN Finite(x[2] + y[2])
    ELSE IF IsFinite(x) THEN y
    ELSE IF IsFinite(y) THEN x
    ELSE IF x = y THEN x
    ELSE NaN

\* x - y
Minus(x, y) == Plus(x, Negate(y))

\* x <= y; false when either is NaN
LessEq(x, y) ==
    IF x = NaN \/ y = NaN THEN FALSE
    ELSE IF IsFinite(x) /\ IsFinite(y) THEN x[2] <= y[2]
    ELSE x = NegInfinity \/ y = PosInfinity

\* x > 0
Positive(x) == x # NaN /\ ~LessEq(x, Finite(0))

\* x >= 0
NonNegative(x) == LessEq(Finite(0), x)

\* The amounts deposit and withdraw are called with.
Amounts == {Finite(n) : n \in (0 - 1)..MaxAmount} \cup {PosInfinity, NegInfinity, NaN}

\* const account = createBankAccount(initialBalance), initialBalance >= 0
InitBank ==
    /\ balance \in {Finite(n) : n \in 0..MaxAmount} \cup {PosInfinity}
    /\ bankLog = <<>>
    /\ EarlierIdle /\ SumIdle /\ AcIdle /\ PairIdle
    /\ ShopIdle /\ CtxIdle /\ StopwatchIdle /\ BatchIdle

\* Finite balances stay within the range explored.
InRange(x) == IsFinite(x) => x[2] <= MaxBalance

\* account.deposit(amount)
deposit(amount) ==
    /\ InRange(Plus(balance, amount))
    /\ IF Positive(amount)
       THEN /\ balance' = Plus(balance, amount)
            /\ bankLog' = <<[op |-> "deposit", amount |-> amount,
                             before |-> balance, ok |-> TRUE]>>
       ELSE /\ UNCHANGED balance
            /\ bankLog' = <<[op |-> "deposit", amount |-> amount,
                             before |-> balance, ok |-> FALSE]>>
    /\ UNCHANGED notBankVars

\* account.withdraw(amount)
withdraw(amount) ==
    /\ IF Positive(amount) /\ LessEq(amount, balance)
       THEN /\ balance' = Minus(balance, amount)
            /\ bankLog' = <<[op |-> "withdraw", amount |-> amount,
                             before |-> balance, ok |-> TRUE]>>
       ELSE /\ UNCHANGED balance
            /\ bankLog' = <<[op |-> "withdraw", amount |-> amount,
                             before |-> balance, ok |-> FALSE]>>
    /\ UNCHANGED notBankVars

NextBank ==
    \/ \E amount \in Amounts : deposit(amount)
    \/ \E amount \in Amounts : withdraw(amount)

SpecBank == InitBank /\ [][NextBank]_vars

----------------------------------------------------------------------------
(* C26: for an account with initialBalance >= 0, after any sequence of        *)
(* deposit and withdraw calls with arbitrary numeric amounts the balance is   *)
(* >= 0; a deposit with amount <= 0 and a withdraw with amount <= 0 or        *)
(* amount > balance return the error message and leave the balance            *)
(* unchanged.                                                                 *)
C26_BalanceNonNegative ==
    /\ NonNegative(balance)
    /\ \A i \in DOMAIN bankLog :
          LET c == bankLog[i]
          IN  (\/ LessEq(c.amount, Finite(0))
               \/ (c.op = "withdraw" /\ c.amount # NaN /\ c.before # NaN
                                     /\ ~LessEq(c.amount, c.before)))
              => (~c.ok /\ balance = c.before)

----------------------------------------------------------------------------
(* class ShoppingCart *)

notShopVars == <<earlierVars, sumVars, acVars, pairVars, bankVars, ctxVars, stopwatchVars, batchVars>>

\* this.items.findIndex(i => i.item === item); 0 stands for -1
FindIndex(item) ==
    IF \E i \in DOMAIN items : items[i].item = item
    THEN CHOOSE i \in DOMAIN items :
            /\ items[i].item = item
            /\ \A j \in 1..(i - 1) : items[j].item # item
    ELSE 0

\* s.splice(index, 1)
Splice(s, index) == SubSeq(s, 1, index - 1) \o SubSeq(s, index + 1, Len(s))

\* A mutant of TotalAfterRemove: the price is not subtracted.
TotalKept(index) == total

\* this.total -= this.items[index].price
TotalAfterRemove(index) == total - items[index].price

\* new ShoppingCart()
InitShop ==
    /\ items = <<>>
    /\ total = 0
    /\ shopLog = <<>>
    /\ EarlierIdle /\ SumIdle /\ AcIdle /\ PairIdle
    /\ BankIdle /\ CtxIdle /\ StopwatchIdle /\ BatchIdle

\* cart.addItem(item, price)
ShopAddItem(item, price) ==
    /\ Len(items) < MaxItems
    /\ items' = Append(items, [item |-> item, price |-> price])
    /\ total' = total + price
    /\ shopLog' = <<[op |-> "addItem", item |-> item, price |-> price,
                     before |-> items, beforeTotal |-> total]>>
    /\ UNCHANGED notShopVars

\* cart.removeItem(item)
ShopRemoveItem(item) ==
    /\ LET index == FindIndex(item)
       IN  IF index # 0
           THEN /\ total' = TotalAfterRemove(index)
                /\ items' = Splice(items, index)
           ELSE UNCHANGED <<items, total>>
    /\ shopLog' = <<[op |-> "removeItem", item |-> item, price |-> 0,
                     before |-> items, beforeTotal |-> total]>>
    /\ UNCHANGED notShopVars

NextShop ==
    \/ \E item \in 1..MaxNames, price \in (0 - 1)..MaxPrice : ShopAddItem(item, price)
    \/ \E item \in 1..MaxNames : ShopRemoveItem(item)

SpecShop == InitShop /\ [][NextShop]_vars

----------------------------------------------------------------------------
(* Claims about ShoppingCart *)

RECURSIVE SumPrices(_)
SumPrices(s) == IF s = <<>> THEN 0 ELSE Head(s).price + SumPrices(Tail(s))

Occurrences(s, item) == {i \in DOMAIN s : s[i].item = item}

----------------------------------------------------------------------------
(* CartProvider *)

notCtxVars == <<earlierVars, sumVars, acVars, pairVars, bankVars, shopVars, stopwatchVars, batchVars>>

\* The prices of the products of CartExample, by id: Apple, Banana, Orange.
ProductPrice == <<2, 1, 3>>
ProductIds == DOMAIN ProductPrice

\* The updaters passed to setItems, by addItem, removeItem and updateQuantity.
AddUpdater(id) == [op |-> "add", id |-> id, quantity |-> 1]
RemoveUpdater(id) == [op |-> "remove", id |-> id, quantity |-> 0]
QuantityUpdater(id, quantity) == [op |-> "set", id |-> id, quantity |-> quantity]

\* A mutant of Existing: addItem never finds the product in the cart.
ExistingNever(prev, id) == FALSE

\* prev.find(item => item.id === product.id), as a condition
Existing(prev, id) == \E i \in DOMAIN prev : prev[i].id = id

\* prev.filter(item => item.id !== id)
RECURSIVE Without(_, _)
Without(prev, id) ==
    IF prev = <<>> THEN <<>>
    ELSE IF Head(prev).id = id THEN Without(Tail(prev), id)
         ELSE <<Head(prev)>> \o Without(Tail(prev), id)

\* One updater applied to the state prev.
ApplyUpdater(u, prev) ==
    CASE u.op = "add" ->
           IF Existing(prev, u.id)
           THEN [i \in DOMAIN prev |->
                    IF prev[i].id = u.id
                    THEN [prev[i] EXCEPT !.quantity = prev[i].quantity + 1]
                    ELSE prev[i]]
           ELSE Append(prev, [id |-> u.id, price |-> ProductPrice[u.id], quantity |-> 1])
      [] u.op = "remove" -> Without(prev, u.id)
      [] u.op = "set" ->
           [i \in DOMAIN prev |->
               IF prev[i].id = u.id THEN [prev[i] EXCEPT !.quantity = u.quantity]
               ELSE prev[i]]

RECURSIVE ProcessUpdaters(_, _)
ProcessUpdaters(q, prev) ==
    IF q = <<>> THEN prev ELSE ProcessUpdaters(Tail(q), ApplyUpdater(Head(q), prev))

\* items.reduce((sum, item) => sum + (item.price * item.quantity), 0)
RECURSIVE CartTotal(_)
CartTotal(s) ==
    IF s = <<>> THEN 0 ELSE Head(s).price * Head(s).quantity + CartTotal(Tail(s))

\* useState([]) and the first render
InitCart ==
    /\ ctxItems = <<>>
    /\ ctxTotal = 0
    /\ ctxQueue = <<>>
    /\ EarlierIdle /\ SumIdle /\ AcIdle /\ PairIdle
    /\ BankIdle /\ ShopIdle /\ StopwatchIdle /\ BatchIdle

\* The quantities stay within the range explored.
QuantitiesInRange(s) == \A i \in DOMAIN s : s[i].quantity <= MaxQuantity

SetItems(updater) ==
    /\ Len(ctxQueue) < MaxBatch
    /\ QuantitiesInRange(ProcessUpdaters(Append(ctxQueue, updater), ctxItems))
    /\ ctxQueue' = Append(ctxQueue, updater)
    /\ UNCHANGED <<ctxItems, ctxTotal, notCtxVars>>

\* addItem(product)
CtxAddItem(id) == SetItems(AddUpdater(id))

\* removeItem(id)
CtxRemoveItem(id) == SetItems(RemoveUpdater(id))

\* updateQuantity(id, quantity)
CtxUpdateQuantity(id, quantity) ==
    IF quantity <= 0
    THEN CtxRemoveItem(id)
    ELSE SetItems(QuantityUpdater(id, quantity))

\* The render: the queued updaters are applied in order, total is computed
\* from the new items.
CtxRender ==
    /\ ctxQueue # <<>>
    /\ ctxItems' = ProcessUpdaters(ctxQueue, ctxItems)
    /\ ctxTotal' = CartTotal(ctxItems')
    /\ ctxQueue' = <<>>
    /\ UNCHANGED notCtxVars

NextCart ==
    \/ \E id \in ProductIds : CtxAddItem(id)
    \/ \E id \in ProductIds : CtxRemoveItem(id)
    \/ \E id \in ProductIds, quantity \in (0 - 1)..MaxQuantity : CtxUpdateQuantity(id, quantity)
    \/ CtxRender

SpecCart == InitCart /\ [][NextCart]_vars

----------------------------------------------------------------------------
(* Claims about CartProvider *)

QuantityOf(s, id) ==
    IF \E i \in DOMAIN s : s[i].id = id
    THEN s[CHOOSE i \in DOMAIN s : s[i].id = id].quantity
    ELSE 0

\* The render processes the single updater u.
Renders(u) == ctxQueue = <<u>> /\ ctxQueue' = <<>>

(* C28: after any sequence of addItem, removeItem and updateQuantity calls,   *)
(* items contains at most one entry per product id and every entry has        *)
(* quantity >= 1 (addItem of an id already present increments its quantity    *)
(* instead of adding an entry; updateQuantity with quantity <= 0 removes the  *)
(* entry), and total equals the sum of price * quantity over items.           *)
C28_CartItems ==
    /\ [](/\ \A i, j \in DOMAIN ctxItems : ctxItems[i].id = ctxItems[j].id => i = j
          /\ \A i \in DOMAIN ctxItems : ctxItems[i].quantity >= 1
          /\ \A i \in DOMAIN ctxItems : ctxItems[i].price = ProductPrice[ctxItems[i].id]
          /\ ctxTotal = CartTotal(ctxItems))
    /\ [][\A id \in ProductIds :
            /\ (Renders(AddUpdater(id)) /\ QuantityOf(ctxItems, id) >= 1) =>
                  /\ Len(ctxItems') = Len(ctxItems)
                  /\ QuantityOf(ctxItems', id) = QuantityOf(ctxItems, id) + 1
            /\ (Renders(AddUpdater(id)) /\ QuantityOf(ctxItems, id) = 0) =>
                  /\ Len(ctxItems') = Len(ctxItems) + 1
                  /\ QuantityOf(ctxItems', id) = 1
            /\ \A quantity \in (0 - 1)..0 :
                  (ctxQueue = <<>> /\ CtxUpdateQuantity(id, quantity)) =>
                      QuantityOf(ProcessUpdaters(ctxQueue', ctxItems), id) = 0
         ]_vars

\* Several products are in the cart, one with a quantity above 1, and the
\* render has computed the total.
C28_Witness ==
    /\ Len(ctxItems) >= 2
    /\ \E i \in DOMAIN ctxItems : ctxItems[i].quantity >= 2
    /\ ctxTotal >= 5
    /\ ctxTotal = CartTotal(ctxItems)
    /\ ctxQueue = <<>>

----------------------------------------------------------------------------
(* Stopwatch *)

notStopwatchVars == <<earlierVars, sumVars, acVars, pairVars, bankVars, shopVars, ctxVars, batchVars>>

\* useState(0), useState(false), useRef(null) and the first render
InitStopwatch ==
    /\ time = 0
    /\ isRunning = FALSE
    /\ queuedRunning = FALSE
    /\ intervalRef = 0
    /\ intervals = {}
    /\ nextInterval = 1
    /\ swLog = <<>>
    /\ EarlierIdle /\ SumIdle /\ AcIdle /\ PairIdle
    /\ BankIdle /\ ShopIdle /\ CtxIdle /\ BatchIdle

\* start(), the handler of the last render: it reads that render's isRunning.
start ==
    /\ nextInterval <= MaxIntervals
    /\ swLog' = <<"start">>
    /\ IF isRunning
       THEN UNCHANGED <<queuedRunning, intervalRef, intervals, nextInterval>>
       ELSE /\ queuedRunning' = TRUE
            /\ intervalRef' = nextInterval
            /\ intervals' = intervals \cup {nextInterval}
            /\ nextInterval' = nextInterval + 1
    /\ UNCHANGED <<time, isRunning, notStopwatchVars>>

\* clearInterval(intervalRef.current), when intervalRef.current is set
ClearCurrent == IF intervalRef # 0 THEN intervals \ {intervalRef} ELSE intervals

\* stop()
stop ==
    /\ swLog' = <<"stop">>
    /\ queuedRunning' = FALSE
    /\ intervals' = ClearCurrent
    /\ UNCHANGED <<time, isRunning, intervalRef, nextInterval, notStopwatchVars>>

\* reset(): stop(); setTime(0)
reset ==
    /\ swLog' = <<"reset">>
    /\ queuedRunning' = FALSE
    /\ intervals' = ClearCurrent
    /\ time' = 0
    /\ UNCHANGED <<isRunning, intervalRef, nextInterval, notStopwatchVars>>

\* The component re-renders: the handlers now read the new isRunning.
StopwatchRender ==
    /\ isRunning # queuedRunning
    /\ isRunning' = queuedRunning
    /\ UNCHANGED <<time, queuedRunning, intervalRef, intervals, nextInterval, swLog>>
    /\ UNCHANGED notStopwatchVars

\* The callback of a live interval: setTime(t => t + 1).
IntervalFire ==
    /\ time < MaxTicks
    /\ \E id \in intervals : time' = time + 1
    /\ UNCHANGED <<isRunning, queuedRunning, intervalRef, intervals, nextInterval, swLog>>
    /\ UNCHANGED notStopwatchVars

NextStopwatch == start \/ stop \/ reset \/ StopwatchRender \/ IntervalFire

SpecStopwatch == InitStopwatch /\ [][NextStopwatch]_vars

----------------------------------------------------------------------------
(* C29: at most one setInterval timer is live at any time, for every          *)
(* sequence of start, stop and reset invocations, including two start         *)
(* invocations that both run before the component re-renders; after stop, no  *)
(* live timer keeps incrementing time.                                        *)
C29_OneInterval ==
    /\ Cardinality(intervals) <= 1
    /\ (swLog = <<"stop">> \/ swLog = <<"reset">>) => intervals = {}

----------------------------------------------------------------------------
(* processLargeDataset(data) *)

notBatchVars == <<earlierVars, sumVars, acVars, pairVars, bankVars, shopVars, ctxVars, stopwatchVars>>

\* Math.min(a, b)
Min(a, b) == IF a <= b THEN a ELSE b

\* A mutant of BatchIndices: the loop runs up to and including endIndex.
BatchIndicesInclusive(from, to) == {i \in DOMAIN data : from < i /\ i <= to + 1}

\* The elements the loop for (i = currentIndex; i < endIndex; i++) visits;
\* the array index i of the source is the element i + 1 here.
BatchIndices(from, to) == {i \in DOMAIN data : from < i /\ i <= to}

\* processLargeDataset(data) has been called and calls processBatch().
InitBatch ==
    /\ data \in UNION {SeqsOfLen(0..MaxArg, n) : n \in 0..MaxLen}
    /\ original = data
    /\ currentIndex = 0
    /\ batchPc = "call"
    /\ batchLog = <<>>
    /\ processed = [i \in DOMAIN data |-> 0]
    /\ otherTasks = 0
    /\ EarlierIdle /\ SumIdle /\ AcIdle /\ PairIdle
    /\ BankIdle /\ ShopIdle /\ CtxIdle /\ StopwatchIdle

\* processBatch(), called by processLargeDataset or run as the timer's task.
processBatch ==
    /\ batchPc \in {"call", "scheduled"}
    /\ LET endIndex == Min(currentIndex + batchSize, Len(data))
           batch == BatchIndices(currentIndex, endIndex)
       IN /\ data' = [i \in DOMAIN data |-> IF i \in batch THEN data[i] * 2 ELSE data[i]]
          /\ processed' = [i \in DOMAIN data |->
                              IF i \in batch THEN processed[i] + 1 ELSE processed[i]]
          /\ batchLog' = Append(batchLog, [from |-> currentIndex, to |-> endIndex])
          /\ currentIndex' = endIndex
          /\ batchPc' = IF endIndex < Len(data) THEN "scheduled" ELSE "done"
    /\ UNCHANGED <<original, otherTasks, notBatchVars>>

\* Another task of the event loop runs while the timer's task waits; it does
\* not touch data.
OtherTask ==
    /\ batchPc = "scheduled"
    /\ otherTasks < MaxOther
    /\ otherTasks' = otherTasks + 1
    /\ UNCHANGED <<data, original, currentIndex, batchPc, batchLog, processed, notBatchVars>>

NextBatch == processBatch \/ OtherTask

SpecBatch == InitBatch /\ [][NextBatch]_vars

\* A task set with setTimeout(processBatch, 0) is run by the event loop.
SpecBatchFair == SpecBatch /\ WF_vars(processBatch)

----------------------------------------------------------------------------
(* Claims about processLargeDataset *)

\* The batches so far cover the indices in increasing order, without gaps,
\* at most batchSize indices each.
BatchesInOrder ==
    \A k \in DOMAIN batchLog :
        /\ batchLog[k].from = IF k = 1 THEN 0 ELSE batchLog[k - 1].to
        /\ batchLog[k].to >= batchLog[k].from
        /\ batchLog[k].to - batchLog[k].from <= batchSize
        /\ (k < Len(batchLog) => batchLog[k].to - batchLog[k].from = batchSize)

(* C30: processLargeDataset(data) terminates for every finite numeric array:  *)
(* it processes indices in increasing order in batches of at most batchSize,  *)
(* yielding to the event loop between batches, and when 'Processing           *)
(* complete!' is logged every element has been doubled exactly once, even     *)
(* when other tasks run between batches.                                      *)
C30_ProcessTerminates ==
    /\ <>(batchPc = "done")
    /\ [](BatchesInOrder)
    /\ [](\A i \in DOMAIN data : processed[i] <= 1)
    /\ [](batchPc = "done" =>
             /\ currentIndex = Len(data)
             /\ \A i \in DOMAIN data : processed[i] = 1 /\ data[i] = 2 * original[i])
    /\ [][otherTasks' # otherTasks => batchPc = "scheduled" /\ data' = data]_vars

\* Three batches, the last one short, with other tasks in between.
C30_Witness ==
    /\ batchPc = "done"
    /\ Len(batchLog) = 3
    /\ batchLog[3].to - batchLog[3].from < batchSize
    /\ otherTasks >= 1
    /\ data # original

====
